---- MODULE Spec2Model ----
(***************************************************************************)
(* Authentication / session core of the library-management backend:        *)
(* registration, login, refresh-token exchange, access-token verification, *)
(* the admin gate and logout, over the user and refresh_token tables.      *)
(* Request handlers are split at their await points (datastore calls), so  *)
(* that other requests and the clock may interleave where the code yields. *)
(***************************************************************************)
EXTENDS Integers, Sequences, FiniteSets, TLC

VARIABLES now, ticks, users, nextId, tokens, procs, issued,
          books, cache, lookups

vars == <<now, ticks, users, nextId, tokens, procs, issued, books, cache, lookups>>

\* the clock, the user and refresh_token tables and the requests on them
accounts == <<now, ticks, users, nextId, tokens, procs, issued>>

\* the book table, the Redis cache and the requests of the book endpoints
library == <<books, cache, lookups>>

----------------------------------------------------------------------------
(* Bounds of the model *)

MaxTicks == 2
MaxUsers == 2
MaxTokens == 2

(* Program constants *)

REFRESH_TOKEN_EXP == 1814400
JWT_EXP == 10
MIN_PASSWORD_LENGTH == 6
MAX_PASSWORD_LENGTH == 128
PATTERN_MIN == 6
PATTERN_MAX == 128
SecondsPerMinute == 60
RevokeBackdate == 86400
BCRYPT_MAX_BYTES == 72
ISBN_DIGITS == 10

JWT_SECRET == "server-secret"
REFRESH_TOKEN_KEY == "refreshToken"

None == "None"

----------------------------------------------------------------------------
(* Input domains *)

Procs == {"c1", "c2"}
\* the client whose requests run one after the other
Sequential == {"c1"}
\* the client whose requests run while another client's request is in flight
Concurrent == {"c2"}
Usernames == {"alice", "bob"}
Emails == {"alice@x.com", "bob@x.com"}
\* the salt gensalt returns when a user row is created (salts are opaque and
\* a row's salt is compared with no other row's)
RowSalts == {"salt1"}
Values == {"v1", "v2"}
UUIDs == 1..MaxTokens
\* lifetimes, in seconds, given to generate_access_token
Lifetimes == {-1, 1, JWT_EXP * SecondsPerMinute}
ClockSteps == {1, JWT_EXP * SecondsPerMinute, REFRESH_TOKEN_EXP}

Pwd1 == <<"P", "w", "d", "1", "2", "!">>
Pwd2 == <<"O", "t", "h", "3", "4", "#">>
WeakPwd == <<"s", "h", "o", "r", "t", "1">>
RegisterPasswords == {Pwd1, WeakPwd}
LoginPasswords == {Pwd1, Pwd2}

\* passwords given to the policy and to the hashing functions
TestPassword == <<"T", "e", "s", "t", "_", "p", "a", "s", "s", "w", "o", "r", "d", "1", "!">>
Short1 == <<"s", "h", "o", "r", "t", "1", "!">>
AllLowercase1 == <<"a", "l", "l", "l", "o", "w", "e", "r", "c", "a", "s", "e", "1">>
NoSpecial1 == <<"N", "O", "S", "P", "E", "C", "I", "A", "L", "1">>
BelowMinimum == <<"s", "h", "1", "!", "a">>
NoDigit == <<"a", "b", "c", "d", "e", "!">>
NoLetter == <<"1", "2", "3", "4", "5", "!">>
WithSpace == <<"P", "w", "d", " ", "1", "2", "!">>
WithNewline == Pwd1 \o <<"\n">>
WithUnicodeDigit == <<"a", "b", "c", "d", "!", "U+0663">>

RECURSIVE Repeat(_, _)
Repeat(c, n) == IF n = 0 THEN <<>> ELSE <<c>> \o Repeat(c, n - 1)

AtMaximum == Repeat("a", MAX_PASSWORD_LENGTH - 2) \o <<"1", "!">>
AboveMaximum == Repeat("a", MAX_PASSWORD_LENGTH - 1) \o <<"1", "!">>

EmptyPassword == <<>>
WithNonAscii == <<"P", "w", "d", "1", "2", "!", "U+00E9">>
PolicyInputs ==
    {Pwd1, Pwd2, WeakPwd, TestPassword, Short1, AllLowercase1, NoSpecial1,
     BelowMinimum, NoDigit, NoLetter, WithSpace, WithNewline, WithUnicodeDigit,
     AtMaximum, AboveMaximum, EmptyPassword, WithNonAscii}
HashInputs == {Pwd1, Pwd2, TestPassword, WithUnicodeDigit}

\* two passwords the policy accepts that agree on their first 72 bytes
LongX == Repeat("a", 70) \o <<"1", "!", "x">>
LongY == Repeat("a", 70) \o <<"1", "!", "y">>
LongInputs == {LongX, LongY}

NoCookie == None
EmptyCookie == ""
Cookies == {NoCookie, EmptyCookie} \cup Values

\* an optional value is the empty sequence or a one-element sequence
Nothing == <<>>
Some(x) == <<x>>

----------------------------------------------------------------------------
(* users/schemas.py: enumerations *)

\* users/schemas.py MembershipStatus
ACTIVE == "ACTIVE"
BLOCKED == "BLOCKED"

\* ChangeMembershipRequest.contact_information: str | None
ContactInputs == {None, "", "phone"}

ADMIN == "admin"
USER == "user"
UserRole == {ADMIN, USER}

----------------------------------------------------------------------------
(* auth/exceptions.py and users/exceptions.py: error kinds and details *)

Detail(kind) ==
    CASE kind = "AuthRequired" -> "Authentication required."
      [] kind = "AuthorizationFailed" -> "Authorization failed. User has no access."
      [] kind = "AccessTokenInvalid" -> "Invalid token."
      [] kind = "InvalidCredentials" -> "Invalid credentials."
      [] kind = "RefreshTokenNotValid" -> "Refresh token is not valid."
      [] kind = "AccessTokenRequired" -> "Access token is required in the Authorization header."
      [] kind = "AccessTokenExpired" -> "Access token has expired. Get a new one."
      [] kind = "EmailTaken" -> "Email is already taken."
      [] kind = "UsernameTaken" -> "Username is already taken."
      [] kind = "LoginOK" -> "Login successful"
      [] kind = "LogoutOK" -> "Logout successful"
      [] OTHER -> None

----------------------------------------------------------------------------
(* auth/utils.py: password policy (STRONG_PASSWORD_PATTERN) *)

AsciiLetters ==
    {"A", "B", "C", "D", "E", "F", "G", "H", "I", "J", "K", "L", "M",
     "N", "O", "P", "Q", "R", "S", "T", "U", "V", "W", "X", "Y", "Z",
     "a", "b", "c", "d", "e", "f", "g", "h", "i", "j", "k", "l", "m",
     "n", "o", "p", "q", "r", "s", "t", "u", "v", "w", "x", "y", "z"}
AsciiDigits == {"0", "1", "2", "3", "4", "5", "6", "7", "8", "9"}
\* \d of a str pattern also matches the non-ASCII decimal digits
UnicodeDigits == {"U+0663", "U+FF11"}
PatternDigits == AsciiDigits \cup UnicodeDigits
SpecialSymbols == {"!", "@", "#", "%", "^", "&", "*"}
PatternClass == AsciiLetters \cup PatternDigits \cup SpecialSymbols
Newline == "\n"

HasChar(s, class) == \E i \in 1..Len(s) : s[i] \in class

\* mutation: the lookahead for a special symbol is dropped
PatternBody_no_special(s) ==
    /\ Len(s) >= PATTERN_MIN
    /\ Len(s) <= PATTERN_MAX
    /\ \A i \in 1..Len(s) : s[i] \in PatternClass
    /\ HasChar(s, PatternDigits)
    /\ HasChar(s, AsciiLetters)

\* the pattern body between ^ and $, on a string without line terminator
PatternBody(s) ==
    /\ Len(s) >= PATTERN_MIN
    /\ Len(s) <= PATTERN_MAX
    /\ \A i \in 1..Len(s) : s[i] \in PatternClass
    /\ HasChar(s, PatternDigits)
    /\ HasChar(s, AsciiLetters)
    /\ HasChar(s, SpecialSymbols)

\* re.match with a trailing $: the end of the string, or just before a
\* newline that ends the string
is_strong_password(password) ==
    \/ PatternBody(password)
    \/ /\ Len(password) > 0
       /\ password[Len(password)] = Newline
       /\ PatternBody(SubSeq(password, 1, Len(password) - 1))

\* mutation: only the Field(min_length, max_length) bounds are checked
ValidRegisterRequest_length_only(password) ==
    /\ Len(password) >= MIN_PASSWORD_LENGTH
    /\ Len(password) <= MAX_PASSWORD_LENGTH

\* users/schemas.py UserRegisterRequest: Field(min_length, max_length) and
\* the after-validator check_password
ValidRegisterRequest(password) ==
    /\ Len(password) >= MIN_PASSWORD_LENGTH
    /\ Len(password) <= MAX_PASSWORD_LENGTH
    /\ is_strong_password(password)

----------------------------------------------------------------------------
(* auth/utils.py: password hashing with bcrypt *)

\* bytes(password, "utf-8"): an ASCII character is one byte, written as the
\* character; the non-ASCII digits take two and three bytes
Utf8Char(c) ==
    CASE c = "U+0663" -> <<"0xD9", "0xA3">>
      [] c = "U+FF11" -> <<"0xEF", "0xBC", "0x91">>
      [] OTHER -> <<c>>

RECURSIVE Utf8(_)
Utf8(s) == IF Len(s) = 0 THEN <<>> ELSE Utf8Char(Head(s)) \o Utf8(Tail(s))

\* bcrypt.gensalt(): the salts it can return
Salts == {"salt1", "salt2"}

\* the bcrypt releases an unpinned `bcrypt` dependency resolves to: before
\* 5.0 the password is cut to its first 72 bytes, from 5.0 on a longer one
\* raises ValueError
BcryptBuilds == {"truncating", "raising"}

\* the bytes of the password that bcrypt's key schedule reads
BcryptKey(pw) ==
    IF Len(pw) > BCRYPT_MAX_BYTES THEN SubSeq(pw, 1, BCRYPT_MAX_BYTES) ELSE pw

\* bcrypt.hashpw / bcrypt.checkpw refuse the password in this build
BcryptRejects(pw, build) == build = "raising" /\ Len(pw) > BCRYPT_MAX_BYTES

\* the digest bcrypt computes from a salt and the password bytes; it
\* embeds the salt
BcryptDigest(pw, salt) == [salt |-> salt, of |-> BcryptKey(pw)]

\* bytes that are not a bcrypt digest: no salt can be read from them
MalformedDigest == [salt |-> "", of |-> <<>>]

\* mutation: the salt drawn is ignored
hash_password_unsalted(password, salt) == BcryptDigest(Utf8(password), "salt1")

\* hash_password, salt being the value gensalt returned
hash_password(password, salt) == BcryptDigest(Utf8(password), salt)

\* bcrypt.checkpw: hashes the password with the salt read from the digest
\* and compares; raises ValueError("Invalid salt") when none can be read
bcrypt_checkpw(pw, hashed_password) ==
    IF hashed_password.salt \notin Salts
    THEN [raised |-> "ValueError", value |-> FALSE]
    ELSE [raised |-> None, value |-> BcryptDigest(pw, hashed_password.salt) = hashed_password]

\* check_password: no exception is caught
check_password(password, password_in_db) ==
    bcrypt_checkpw(Utf8(password), password_in_db)

----------------------------------------------------------------------------
(* auth/utils.py and jose: access tokens *)

RECURSIVE DigitsOf(_)
\* str(user.id)
DigitsOf(n) == IF n < 10 THEN <<n>> ELSE Append(DigitsOf(n \div 10), n % 10)

RECURSIVE ParseInt(_)
\* JWTData: user_id: int = Field(alias="sub")
ParseInt(s) ==
    IF Len(s) = 0 THEN 0
    ELSE 10 * ParseInt(SubSeq(s, 1, Len(s) - 1)) + s[Len(s)]

Sign(payload, key) == [key |-> key, over |-> payload]

Payload(t) == [sub |-> t.sub, exp |-> t.exp, is_admin |-> t.is_admin]

jwt_encode(payload, key) ==
    [sub |-> payload.sub, exp |-> payload.exp, is_admin |-> payload.is_admin,
     sig |-> Sign(payload, key)]

\* mutation: the lifetime is subtracted from the clock
generate_access_token_backdated(user_id, role, expires_delta, clock) ==
    jwt_encode([sub |-> DigitsOf(user_id),
                exp |-> clock - expires_delta,
                is_admin |-> (role = ADMIN)], JWT_SECRET)

generate_access_token(user_id, role, expires_delta, clock) ==
    jwt_encode([sub |-> DigitsOf(user_id),
                exp |-> clock + expires_delta,
                is_admin |-> (role = ADMIN)], JWT_SECRET)

\* auth/schemas.py JWTData(**payload): sub parsed into user_id
JWTData(t) == [user_id |-> ParseInt(t.sub), is_admin |-> t.is_admin]

\* mutation: a token is refused once its principal holds no live
\* refresh-token record
jwt_decode_session_bound(t, key, clock) ==
    IF t.sig # Sign(Payload(t), key) THEN "JWTError"
    ELSE IF t.exp < clock THEN "ExpiredSignatureError"
    ELSE IF \A u \in DOMAIN tokens :
               \/ DigitsOf(tokens[u].user_id) # t.sub
               \/ tokens[u].expires_at <= clock
    THEN "JWTError"
    ELSE "ok"

\* mutation: the exp claim checked before the signature
jwt_decode_expiry_first(t, key, clock) ==
    IF t.exp < clock THEN "ExpiredSignatureError"
    ELSE IF t.sig # Sign(Payload(t), key) THEN "JWTError"
    ELSE "ok"

\* jose jwt.decode: the signature first, then the exp claim
jwt_decode(t, key, clock) ==
    IF t.sig # Sign(Payload(t), key) THEN "JWTError"
    ELSE IF t.exp < clock THEN "ExpiredSignatureError"
    ELSE "ok"

\* mutation: a record counts as expired at the instant of its expiry
is_refresh_token_expired_inclusive(refresh_token, clock) ==
    clock >= refresh_token.expires_at

\* auth/utils.py is_refresh_token_expired
is_refresh_token_expired(refresh_token, clock) == clock > refresh_token.expires_at

----------------------------------------------------------------------------
(* State *)

\* a client between requests, and the shape of every request record
Idle ==
    [op |-> "idle", pc |-> "done", cookie |-> NoCookie, username |-> None,
     email |-> None, password |-> <<>>, token |-> Nothing, rt |-> 0,
     role |-> None, uid |-> 0, ts |-> 0, res |-> None, setcookie |-> Nothing,
     principal |-> Nothing, afterLogout |-> FALSE, stale |-> FALSE,
     out |-> Nothing, prev |-> Nothing, digest |-> Nothing, salt |-> None,
     user_id |-> 0, contact_information |-> None, pending |-> Nothing]

\* a client of the book endpoints between two requests
IdleLookup ==
    [op |-> "idle", pc |-> "done", isbn |-> <<>>, category_name |-> <<>>,
     search |-> Nothing, cached |-> Nothing, res |-> None, out |-> <<>>,
     tasks |-> <<>>]

Init ==
    /\ now = 0
    /\ ticks = 0
    /\ users = << >>
    /\ nextId = 1
    /\ tokens = << >>
    /\ procs = [p \in Procs |-> Idle]
    /\ issued = Nothing
    /\ books = << >>
    /\ cache = << >>
    /\ lookups = [p \in Procs |-> IdleLookup]

Ready(p) == procs[p].pc = "done"

\* the record of a request that client p starts now
Request(p, op) ==
    [Idle EXCEPT !.op = op, !.pc = "run",
                 !.afterLogout = (procs[p].op = "logout" /\ procs[p].res = "LogoutOK")]

\* the record of a finished request: the response, and of the request only
\* what identifies the credential it presented
Done(r, res) ==
    [r EXCEPT !.pc = "done", !.res = res, !.email = None, !.password = <<>>,
              !.role = None, !.ts = 0]

----------------------------------------------------------------------------
(* users/services.py: lookups *)

get_by_id(user_id) ==
    IF user_id \in DOMAIN users THEN Some(users[user_id]) ELSE Nothing

ByUsername(username) == {id \in DOMAIN users : users[id].username = username}
ByEmail(email) == {id \in DOMAIN users : users[id].email = email}

\* auth/services.py get_refresh_token_by_value: the rows the query matches
ByValue(value) == {u \in DOMAIN tokens : tokens[u].refresh_token = value}

----------------------------------------------------------------------------
(* users/services.py create_user, and the callers that register principals *)

\* the row create_user adds; via records the creation path
NewUser(username, email, password, salt, role, via) ==
    [username |-> username, email |-> email,
     password |-> hash_password(password, salt), role |-> role, via |-> via,
     library_member |-> Nothing]

\* mutation: the user table has no unique constraint
UserUniqueViolation_none(username, email) == FALSE

\* the unique constraints of the user table (users/models.py)
UserUniqueViolation(username, email) ==
    ByUsername(username) # {} \/ ByEmail(email) # {}

\* mutation: the role of the request body is stored
RegisterRole_requested(requested) == requested

\* auth/routers.py register: the role stored for a self-registered user,
\* whatever role the request body carries
RegisterRole(requested) == USER

\* the commit of create_user for request r of client p
CreateUserCommit(p, r, role, via) ==
    \E salt \in RowSalts, build \in BcryptBuilds :
        IF BcryptRejects(Utf8(r.password), build)
        THEN \* hash_password raises before anything is added
             /\ procs' = [procs EXCEPT ![p] = Done(r, "ValueError")]
             /\ UNCHANGED <<users, nextId>>
        ELSE IF UserUniqueViolation(r.username, r.email)
        THEN /\ procs' = [procs EXCEPT ![p] = Done(r, "IntegrityError")]
             /\ UNCHANGED <<users, nextId>>
        ELSE LET row == NewUser(r.username, r.email, r.password, salt, role, via)
             IN /\ users' = users @@ (nextId :> row)
                /\ nextId' = nextId + 1
                /\ procs' = [procs EXCEPT
                       ![p] = [Done(r, "Created") EXCEPT
                                 !.uid = nextId, !.principal = Some(row)]]

\* POST /auth/register: request validation, then get_by_email
Register(p, username, email, password, role) ==
    /\ Ready(p)
    /\ nextId <= MaxUsers
    /\ LET r == [Request(p, "register") EXCEPT !.username = username,
                     !.email = email, !.password = password, !.role = role]
       IN procs' = [procs EXCEPT ![p] =
            IF ~ValidRegisterRequest(password) THEN Done(r, "RequestValidationError")
            ELSE IF ByEmail(email) # {}
            THEN [Done(r, "EmailTaken") EXCEPT !.email = email]
            ELSE [r EXCEPT !.pc = "reg_username"]]
    /\ UNCHANGED <<now, ticks, users, nextId, tokens, issued>>
    /\ UNCHANGED library

\* register: get_by_username
RegisterUsername(p) ==
    /\ procs[p].pc = "reg_username"
    /\ procs' = [procs EXCEPT ![p] =
            IF ByUsername(procs[p].username) # {} THEN Done(procs[p], "UsernameTaken")
            ELSE [procs[p] EXCEPT !.pc = "reg_create"]]
    /\ UNCHANGED <<now, ticks, users, nextId, tokens, issued>>
    /\ UNCHANGED library

\* register: User(**new_user.model_dump()), role = USER, create_user
RegisterCreate(p) ==
    /\ procs[p].pc = "reg_create"
    /\ CreateUserCommit(p, procs[p], RegisterRole(procs[p].role), "register")
    /\ UNCHANGED <<now, ticks, tokens, issued>>
    /\ UNCHANGED library

\* commands.py createadmin: get_by_email
CreateAdmin(p, username, email, password) ==
    /\ Ready(p)
    /\ nextId <= MaxUsers
    /\ LET r == [Request(p, "createadmin") EXCEPT !.username = username,
                     !.email = email, !.password = password]
       IN procs' = [procs EXCEPT ![p] =
            IF ByEmail(email) # {}
            THEN [Done(r, "EmailTaken") EXCEPT !.email = email]
            ELSE [r EXCEPT !.pc = "ca_username"]]
    /\ UNCHANGED <<now, ticks, users, nextId, tokens, issued>>
    /\ UNCHANGED library

\* createadmin: get_by_username
CreateAdminUsername(p) ==
    /\ procs[p].pc = "ca_username"
    /\ procs' = [procs EXCEPT ![p] =
            IF ByUsername(procs[p].username) # {} THEN Done(procs[p], "UsernameTaken")
            ELSE [procs[p] EXCEPT !.pc = "ca_create"]]
    /\ UNCHANGED <<now, ticks, users, nextId, tokens, issued>>
    /\ UNCHANGED library

\* createadmin: User(**admin_data) with role ADMIN, create_user
CreateAdminCreate(p) ==
    /\ procs[p].pc = "ca_create"
    /\ IF ~ValidRegisterRequest(procs[p].password)
       THEN /\ procs' = [procs EXCEPT ![p] = Done(procs[p], "ValidationError")]
            /\ UNCHANGED <<users, nextId>>
       ELSE CreateUserCommit(p, procs[p], ADMIN, "createadmin")
    /\ UNCHANGED <<now, ticks, tokens, issued>>
    /\ UNCHANGED library

----------------------------------------------------------------------------
(* auth/utils.py called directly, as the repository's tests call it *)

\* is_strong_password(password)
IsStrongPassword(p, password) ==
    /\ Ready(p)
    /\ procs' = [procs EXCEPT ![p] =
          [Request(p, "is_strong_password") EXCEPT
              !.pc = "done", !.password = password,
              !.out = Some(is_strong_password(password))]]
    /\ UNCHANGED <<now, ticks, users, nextId, tokens, issued>>
    /\ UNCHANGED library

\* hash_password(password); salt is what gensalt returned, prev the salt and
\* the digest of the call just before, when that call hashed the same
\* password
HashPassword(p, password) ==
    /\ Ready(p)
    /\ \E salt \in Salts, build \in BcryptBuilds :
         procs' = [procs EXCEPT ![p] =
            IF BcryptRejects(Utf8(password), build)
            THEN [Request(p, "hash_password") EXCEPT
                    !.pc = "done", !.password = password, !.res = "ValueError"]
            ELSE [Request(p, "hash_password") EXCEPT
                    !.pc = "done", !.password = password, !.salt = salt,
                    !.res = "Returned",
                    !.out = Some(hash_password(password, salt)),
                    !.prev = IF procs[p].op = "hash_password"
                                /\ procs[p].password = password
                                /\ procs[p].res = "Returned"
                             THEN Some([salt |-> procs[p].salt,
                                        digest |-> procs[p].out[1]])
                             ELSE Nothing]]
    /\ UNCHANGED <<now, ticks, users, nextId, tokens, issued>>
    /\ UNCHANGED library

\* the digests check_password is called with: digests of known passwords,
\* stored ones, and bytes that are no digest
Digests ==
    {BcryptDigest(Utf8(pw), salt) : pw \in HashInputs \cup LongInputs, salt \in Salts}
        \cup {users[id].password : id \in DOMAIN users}
        \cup {MalformedDigest}

\* check_password(password, password_in_db)
CheckPassword(p, password, password_in_db) ==
    /\ Ready(p)
    /\ password_in_db \in Digests
    /\ \E build \in BcryptBuilds :
         procs' = [procs EXCEPT ![p] =
          [Request(p, "check_password") EXCEPT
              !.pc = "done", !.password = password,
              !.digest = Some(password_in_db),
              !.out = Some(IF BcryptRejects(Utf8(password), build)
                           THEN [raised |-> "ValueError", value |-> FALSE]
                           ELSE check_password(password, password_in_db))]]
    /\ UNCHANGED <<now, ticks, users, nextId, tokens, issued>>
    /\ UNCHANGED library

\* users/schemas.py User(username, email, password, role): the validation
\* that precedes a direct call of create_user
CreateUser(p, username, email, password, role) ==
    /\ Ready(p)
    /\ nextId <= MaxUsers
    /\ LET r == [Request(p, "create_user") EXCEPT !.username = username,
                     !.email = email, !.password = password, !.role = role]
       IN procs' = [procs EXCEPT ![p] =
            IF ~ValidRegisterRequest(password)
            THEN [Done(r, "ValidationError") EXCEPT !.password = password]
            ELSE [r EXCEPT !.pc = "cu_create"]]
    /\ UNCHANGED <<now, ticks, users, nextId, tokens, issued>>
    /\ UNCHANGED library

\* UserService.create_user
CreateUserCreate(p) ==
    /\ procs[p].pc = "cu_create"
    /\ CreateUserCommit(p, procs[p], procs[p].role, "create_user")
    /\ UNCHANGED <<now, ticks, tokens, issued>>
    /\ UNCHANGED library

----------------------------------------------------------------------------
(* Login: users/services.py authenticate, auth/services.py create_refresh_token *)

\* authenticate: the user found and verified (id), nothing (0), or the
\* exception check_password let through
authenticate(username, password) ==
    IF ByUsername(username) = {} THEN [raised |-> None, id |-> 0]
    ELSE LET id == CHOOSE i \in ByUsername(username) : TRUE
             checked == check_password(password, users[id].password)
         IN IF checked.raised # None THEN [raised |-> checked.raised, id |-> 0]
            ELSE [raised |-> None, id |-> IF checked.value THEN id ELSE 0]

\* mutation: an unknown username is reported apart from a wrong password
LoginFailure_distinguishing(username) ==
    IF ByUsername(username) = {} THEN "UserNotFound" ELSE "InvalidCredentials"

\* auth/routers.py login: what a failed authentication raises
LoginFailure(username) == "InvalidCredentials"

\* auth/utils.py get_refresh_token_cookie_settings
get_refresh_token_cookie_settings(refresh_token, expired) ==
    IF expired
    THEN [key |-> REFRESH_TOKEN_KEY, httponly |-> TRUE, samesite |-> "none"]
    ELSE [key |-> REFRESH_TOKEN_KEY, httponly |-> TRUE, samesite |-> "none",
          value |-> refresh_token, max_age |-> REFRESH_TOKEN_EXP]

\* Response.set_cookie / Response.delete_cookie with those settings
SetCookie(settings) == Some([action |-> "set", key |-> settings.key,
                             value |-> settings.value, max_age |-> settings.max_age])
DeleteCookie(settings) == Some([action |-> "delete", key |-> settings.key,
                                value |-> "", max_age |-> 0])

\* POST /auth/login: authenticate
Login(p, username, password) ==
    /\ Ready(p)
    /\ LET r == [Request(p, "login") EXCEPT !.username = username,
                     !.password = password]
           auth == authenticate(username, password)
       IN \E build \in BcryptBuilds :
          procs' = [procs EXCEPT ![p] =
            IF ByUsername(username) # {} /\ BcryptRejects(Utf8(password), build)
            THEN [Done(r, "ValueError") EXCEPT !.password = password]
            ELSE IF auth.raised # None
            THEN [Done(r, auth.raised) EXCEPT !.password = password]
            ELSE IF auth.id = 0
            THEN [Done(r, LoginFailure(username)) EXCEPT !.password = password]
            ELSE [r EXCEPT !.pc = "login_create", !.uid = auth.id]]
    /\ UNCHANGED <<now, ticks, users, nextId, tokens, issued>>
    /\ UNCHANGED library

\* mutation: the record expires at the instant it is created
NewRefreshToken_no_lifetime(user_id, value, clock) ==
    [user_id |-> user_id, refresh_token |-> value, expires_at |-> clock]

\* create_refresh_token: the row added for user_id
NewRefreshToken(user_id, value, clock) ==
    [user_id |-> user_id, refresh_token |-> value,
     expires_at |-> clock + REFRESH_TOKEN_EXP]

\* uuid.uuid4(): identifiers are opaque, so of the unused ones the least
\* stands for all; a used one collides with a stored row
Uuid4 == {u \in UUIDs : u \in DOMAIN tokens \/ \A v \in UUIDs \ DOMAIN tokens : u <= v}

\* generate_random_alphanum(64): a value some row already holds, or a new
\* one ("v1" before "v2": values are opaque too)
StoredValues == {tokens[u].refresh_token : u \in DOMAIN tokens}
generate_random_alphanum ==
    {v \in Values : v \in StoredValues \/ v = "v1" \/ "v1" \in StoredValues}

\* login: create_refresh_token (random value, random uuid, commit), set_cookie
LoginCreate(p) ==
    /\ procs[p].pc = "login_create"
    /\ \E value \in generate_random_alphanum, uuid \in Uuid4 :
         IF uuid \in DOMAIN tokens \/ procs[p].uid \notin DOMAIN users
         THEN \* primary key or foreign key violation at commit
              /\ procs' = [procs EXCEPT ![p] = Done(procs[p], "IntegrityError")]
              /\ UNCHANGED tokens
         ELSE /\ tokens' = tokens @@ (uuid :> NewRefreshToken(procs[p].uid, value, now))
              /\ procs' = [procs EXCEPT ![p] =
                     [Done(procs[p], "LoginOK") EXCEPT
                        !.rt = uuid,
                        !.setcookie = SetCookie(
                            get_refresh_token_cookie_settings(value, FALSE))]]
    /\ UNCHANGED <<now, ticks, users, nextId, issued>>
    /\ UNCHANGED library

----------------------------------------------------------------------------
(* auth/dependencies.py: the refresh-token path *)

RefreshOps == {"token", "admin_refresh"}

\* the admin-only endpoints that read a request body after the gate:
\* create_user, activate_membership, block_membership
AdminBodyOps == {"create", "activate", "block"}

\* observation, not program state: some stored record holding the presented
\* value is revoked or past its expiry when the request starts
HoldsExpired(value) ==
    \E u \in ByValue(value) : now > tokens[u].expires_at

\* get_user_from_refresh_token up to its second await: the cookie check,
\* get_refresh_token_by_value and the expiry check
RefreshLookup(p, op, cookie) ==
    /\ Ready(p)
    /\ LET r == [Request(p, op) EXCEPT !.cookie = cookie,
                                        !.stale = HoldsExpired(cookie)]
       IN IF cookie = NoCookie \/ cookie = EmptyCookie
          THEN procs' = [procs EXCEPT ![p] = Done(r, "AuthRequired")]
          ELSE IF ByValue(cookie) = {}
          THEN procs' = [procs EXCEPT ![p] = Done(r, "RefreshTokenNotValid")]
          ELSE \E uuid \in ByValue(cookie) :
                 procs' = [procs EXCEPT ![p] =
                    IF is_refresh_token_expired(tokens[uuid], now)
                    THEN [Done(r, "RefreshTokenNotValid") EXCEPT !.rt = uuid]
                    ELSE [r EXCEPT !.pc = "refresh_user", !.rt = uuid,
                                   !.uid = tokens[uuid].user_id]]
    /\ UNCHANGED <<now, ticks, users, nextId, tokens, issued>>
    /\ UNCHANGED library

\* mutation: the gate lets every verified principal through
AdminGate_open(user) == "AdminOK"

\* get_admin_from_refresh_token / get_admin_from_access_token: the role check
AdminGate(user) == IF user.role # ADMIN THEN "AuthorizationFailed" ELSE "AdminOK"

\* mutation: the exchanged record is revoked, as under token rotation
ExchangeStore_rotating(toks, uuid, clock) ==
    IF uuid \in DOMAIN toks
    THEN [toks EXCEPT ![uuid].expires_at = clock - RevokeBackdate]
    ELSE toks

\* get_api_access_token: the refresh_token table after the exchange of
\* record uuid; the handler issues no write
ExchangeStore(toks, uuid, clock) == toks

\* get_user_from_refresh_token from get_by_id on, then the caller:
\* get_api_access_token mints an access token, the admin gate checks the role
RefreshUser(p) ==
    /\ procs[p].pc = "refresh_user"
    /\ LET r == procs[p]
           found == get_by_id(r.uid)
       IN IF found = Nothing
          THEN /\ procs' = [procs EXCEPT ![p] = Done(r, "RefreshTokenNotValid")]
               /\ UNCHANGED <<issued, tokens>>
          ELSE IF r.op = "token"
          THEN LET t == generate_access_token(r.uid, found[1].role,
                                              JWT_EXP * SecondsPerMinute, now)
               IN /\ procs' = [procs EXCEPT ![p] =
                        [Done(r, "TokenOK") EXCEPT !.token = Some(t),
                                                   !.principal = found]]
                  /\ issued' = Some(t)
                  /\ tokens' = ExchangeStore(tokens, r.rt, now)
          ELSE IF r.op \in AdminBodyOps /\ AdminGate(found[1]) = "AdminOK"
          THEN \* the dependency returned the admin: the body is read next
               /\ procs' = [procs EXCEPT ![p] =
                     [r EXCEPT !.pc = "admin_body", !.principal = found]]
               /\ UNCHANGED <<issued, tokens>>
          ELSE /\ procs' = [procs EXCEPT ![p] =
                     [Done(r, AdminGate(found[1])) EXCEPT !.principal = found]]
               /\ UNCHANGED <<issued, tokens>>
    /\ UNCHANGED <<now, ticks, users, nextId>>
    /\ UNCHANGED library

----------------------------------------------------------------------------
(* users/routers.py create_user: POST /users/create, only for admins *)

\* create_user: the body validated as users/schemas.py User once
\* get_admin_from_refresh_token returned, then get_by_email
AdminCreateUser(p, username, email, password, role) ==
    /\ procs[p].pc = "admin_body"
    /\ procs[p].op = "create"
    /\ nextId <= MaxUsers
    /\ LET r == [procs[p] EXCEPT !.username = username, !.email = email,
                                 !.password = password, !.role = role]
       IN procs' = [procs EXCEPT ![p] =
            IF ~ValidRegisterRequest(password) THEN Done(r, "RequestValidationError")
            ELSE IF ByEmail(email) # {}
            THEN [Done(r, "EmailTaken") EXCEPT !.email = email]
            ELSE [r EXCEPT !.pc = "create_username"]]
    /\ UNCHANGED <<now, ticks, users, nextId, tokens, issued>>
    /\ UNCHANGED library

\* create_user: get_by_username
AdminCreateUserUsername(p) ==
    /\ procs[p].pc = "create_username"
    /\ procs' = [procs EXCEPT ![p] =
            IF ByUsername(procs[p].username) # {} THEN Done(procs[p], "UsernameTaken")
            ELSE [procs[p] EXCEPT !.pc = "create_create"]]
    /\ UNCHANGED <<now, ticks, users, nextId, tokens, issued>>
    /\ UNCHANGED library

\* create_user: user_service.create_user with the role of the body
AdminCreateUserCreate(p) ==
    /\ procs[p].pc = "create_create"
    /\ CreateUserCommit(p, procs[p], procs[p].role, "create")
    /\ UNCHANGED <<now, ticks, tokens, issued>>
    /\ UNCHANGED library

----------------------------------------------------------------------------
(* users/services.py activate_membership, block_membership and their
   endpoints in users/routers.py *)

\* LibraryMemberModel(id=user_id, contact_information, membership_status)
LibraryMember(user_id, contact_information, membership_status) ==
    [id |-> user_id, contact_information |-> contact_information,
     membership_status |-> membership_status]

\* activate_membership up to its commit: what it raises, and the
\* library_member row it is about to insert or update, if any
activate_membership(user, user_id, contact_information) ==
    IF user = Nothing
    THEN [raised |-> "UserNotFound", write |-> Nothing]
    ELSE IF user[1].library_member = Nothing
    THEN IF contact_information = None \/ contact_information = ""
         THEN [raised |-> "ContactInformationNotProvided", write |-> Nothing]
         ELSE [raised |-> None,
               write |-> Some([insert |-> TRUE,
                               row |-> LibraryMember(user_id, contact_information,
                                                     ACTIVE)])]
    ELSE IF user[1].library_member[1].membership_status = BLOCKED
    THEN [raised |-> None,
          write |-> Some([insert |-> FALSE,
                          row |-> [user[1].library_member[1] EXCEPT
                                     !.membership_status = ACTIVE]])]
    ELSE [raised |-> None, write |-> Nothing]

\* mutation: an active membership is left as it is
block_membership_no_write(user, user_id) ==
    IF user = Nothing
    THEN [raised |-> "UserNotFound", write |-> Nothing]
    ELSE IF user[1].library_member = Nothing
    THEN [raised |-> "UserIsNotLibraryMember", write |-> Nothing]
    ELSE [raised |-> None, write |-> Nothing]

\* block_membership up to its commit
block_membership(user, user_id) ==
    IF user = Nothing
    THEN [raised |-> "UserNotFound", write |-> Nothing]
    ELSE IF user[1].library_member = Nothing
    THEN [raised |-> "UserIsNotLibraryMember", write |-> Nothing]
    ELSE IF user[1].library_member[1].membership_status = ACTIVE
    THEN [raised |-> None,
          write |-> Some([insert |-> FALSE,
                          row |-> [user[1].library_member[1] EXCEPT
                                     !.membership_status = BLOCKED]])]
    ELSE [raised |-> None, write |-> Nothing]

\* ChangeMembershipResponse.current_membership_status of each endpoint
ReportedStatus(op) == IF op = "activate" THEN ACTIVE ELSE BLOCKED

\* POST /users/membership/activate and /block once the admin gate passed:
\* the body, get_by_id, and the service up to its commit
ChangeMembership(p, user_id, contact_information) ==
    /\ procs[p].pc = "admin_body"
    /\ procs[p].op \in {"activate", "block"}
    /\ LET r == [procs[p] EXCEPT !.user_id = user_id,
                                 !.contact_information = contact_information]
           got == IF r.op = "activate"
                  THEN activate_membership(get_by_id(user_id), user_id,
                                           contact_information)
                  ELSE block_membership(get_by_id(user_id), user_id)
       IN procs' = [procs EXCEPT ![p] =
            IF got.raised # None THEN Done(r, got.raised)
            ELSE IF got.write = Nothing
            THEN [Done(r, "MembershipOK") EXCEPT !.out = Some(ReportedStatus(r.op))]
            ELSE [r EXCEPT !.pc = "membership_commit", !.pending = got.write]]
    /\ UNCHANGED <<now, ticks, users, nextId, tokens, issued>>
    /\ UNCHANGED library

\* activate_membership / block_membership: db.commit, then the response
ChangeMembershipCommit(p) ==
    /\ procs[p].pc = "membership_commit"
    /\ LET r == procs[p]
           write == r.pending[1]
       IN IF r.user_id \notin DOMAIN users
          THEN \* the user row is gone: the flush matches no row
               /\ procs' = [procs EXCEPT ![p] =
                     [Done(r, "StaleDataError") EXCEPT !.pending = Nothing]]
               /\ UNCHANGED users
          ELSE IF write.insert /\ users[r.user_id].library_member # Nothing
          THEN \* a library_member row with this id was inserted meanwhile
               /\ procs' = [procs EXCEPT ![p] =
                     [Done(r, "IntegrityError") EXCEPT !.pending = Nothing]]
               /\ UNCHANGED users
          ELSE /\ users' = [users EXCEPT ![r.user_id].library_member =
                                            Some(write.row)]
               /\ procs' = [procs EXCEPT ![p] =
                     [Done(r, "MembershipOK") EXCEPT
                        !.pending = Nothing,
                        !.out = Some(ReportedStatus(r.op))]]
    /\ UNCHANGED <<now, ticks, nextId, tokens, issued>>
    /\ UNCHANGED library

----------------------------------------------------------------------------
(* auth/dependencies.py: the access-token path *)

AccessOps == {"verify", "admin_access"}

\* generate_access_token(user, expires_delta) called directly for a stored
\* user
Mint(p, id, expires_delta) ==
    /\ Ready(p)
    /\ id \in DOMAIN users
    /\ LET t == generate_access_token(id, users[id].role, expires_delta, now)
       IN /\ procs' = [procs EXCEPT ![p] =
                [Request(p, "mint") EXCEPT
                    !.pc = "done", !.uid = id, !.ts = now, !.token = Some(t),
                    !.out = Some(expires_delta), !.principal = Some(users[id])]]
          /\ issued' = Some(t)
    /\ UNCHANGED <<now, ticks, users, nextId, tokens>>
    /\ UNCHANGED library

\* what a client can present from an access token it was issued: the token,
\* the token with its admin flag flipped or its expiry extended (signature
\* kept), and the token signed again with a key that is not the server's
Tampered(t) ==
    {[t EXCEPT !.is_admin = ~t.is_admin],
     [t EXCEPT !.exp = t.exp + REFRESH_TOKEN_EXP],
     [t EXCEPT !.sig = Sign(Payload(t), "attacker-key")]}

Presentable ==
    {Nothing} \cup
    (IF issued = Nothing THEN {}
     ELSE {issued} \cup {Some(f) : f \in Tampered(issued[1])})

\* get_user_from_access_token: the except clauses around jwt.decode
DecodeFailure(err) ==
    IF err = "ExpiredSignatureError" THEN "AccessTokenExpired"
    ELSE "AccessTokenInvalid"

\* mutation: the role is taken from the token's claims
VerifiedPrincipal_from_claims(user_db, t) ==
    [user_db EXCEPT !.role = IF t.is_admin THEN ADMIN ELSE USER]

\* get_user_from_access_token: the principal it returns for a decoded token
VerifiedPrincipal(user_db, t) == user_db

\* get_user_from_access_token: [res, principal]
get_user_from_access_token(access_token, clock) ==
    IF access_token = Nothing
    THEN [res |-> "AccessTokenRequired", principal |-> Nothing]
    ELSE LET t == access_token[1]
             decoded == jwt_decode(t, JWT_SECRET, clock)
         IN IF decoded # "ok"
            THEN [res |-> DecodeFailure(decoded), principal |-> Nothing]
            ELSE LET user_db == get_by_id(ParseInt(t.sub))
                 IN IF user_db = Nothing
                    THEN [res |-> "AccessTokenInvalid", principal |-> Nothing]
                    ELSE [res |-> "VerifyOK",
                          principal |-> Some(VerifiedPrincipal(user_db[1], t))]

\* a request through get_user_from_access_token (op "verify") or through
\* get_admin_from_access_token (op "admin_access")
AccessVerify(p, op, access_token) ==
    /\ Ready(p)
    /\ access_token \in Presentable
    /\ LET r == [Request(p, op) EXCEPT !.token = access_token]
           got == get_user_from_access_token(access_token, now)
           res == IF got.res = "VerifyOK" /\ op = "admin_access"
                  THEN AdminGate(got.principal[1]) ELSE got.res
       IN procs' = [procs EXCEPT ![p] =
            [Done(r, res) EXCEPT !.principal = got.principal,
                                 !.uid = IF got.principal = Nothing THEN 0
                                         ELSE ParseInt(access_token[1].sub)]]
    /\ UNCHANGED <<now, ticks, users, nextId, tokens, issued>>
    /\ UNCHANGED library

----------------------------------------------------------------------------
(* auth/routers.py logout_user, auth/services.py expire_refresh_token *)

\* mutation: the row is deleted instead of back-dated
expire_refresh_token_delete(toks, uuid, expires_at) ==
    [u \in DOMAIN toks \ {uuid} |-> toks[u]]

\* mutation: the new expiry is a day after the call, not a day before
expire_refresh_token_day_ahead(toks, uuid, expires_at) ==
    [toks EXCEPT ![uuid].expires_at = expires_at + RevokeBackdate + RevokeBackdate]

\* expire_refresh_token: the update it commits
expire_refresh_token(toks, uuid, expires_at) ==
    [toks EXCEPT ![uuid].expires_at = expires_at]

\* mutation: the cookie is cleared only when a record was revoked
LogoutCookie_only_found(value, found) ==
    IF found THEN DeleteCookie(get_refresh_token_cookie_settings(value, TRUE))
    ELSE Nothing

\* logout_user: the cookie it clears after the lookup, found or not
LogoutCookie(value, found) ==
    DeleteCookie(get_refresh_token_cookie_settings(value, TRUE))

\* POST /auth/logout: the required cookie, the empty-value return,
\* get_refresh_token_by_value
Logout(p, cookie) ==
    /\ Ready(p)
    /\ LET r == [Request(p, "logout") EXCEPT !.cookie = cookie]
       IN IF cookie = NoCookie
          THEN \* Cookie(...) is a required parameter
               procs' = [procs EXCEPT ![p] = Done(r, "RequestValidationError")]
          ELSE IF cookie = EmptyCookie
          THEN procs' = [procs EXCEPT ![p] = Done(r, "LogoutOK")]
          ELSE IF ByValue(cookie) = {}
          THEN procs' = [procs EXCEPT ![p] =
                  [Done(r, "LogoutOK") EXCEPT !.setcookie = LogoutCookie(cookie, FALSE)]]
          ELSE \E uuid \in ByValue(cookie) :
                 procs' = [procs EXCEPT ![p] =
                    [r EXCEPT !.pc = "logout_find", !.rt = uuid]]
    /\ UNCHANGED <<now, ticks, users, nextId, tokens, issued>>
    /\ UNCHANGED library

\* expire_refresh_token: get_refresh_token_by_uuid and the new expires_at
LogoutFind(p) ==
    /\ procs[p].pc = "logout_find"
    /\ LET r == procs[p]
       IN procs' = [procs EXCEPT ![p] =
            IF r.rt \in DOMAIN tokens
            THEN [r EXCEPT !.pc = "logout_commit", !.ts = now - RevokeBackdate]
            ELSE [Done(r, "LogoutOK") EXCEPT
                    !.setcookie = LogoutCookie(r.cookie, FALSE)]]
    /\ UNCHANGED <<now, ticks, users, nextId, tokens, issued>>
    /\ UNCHANGED library

\* expire_refresh_token: the commit, then delete_cookie
LogoutCommit(p) ==
    /\ procs[p].pc = "logout_commit"
    /\ LET r == procs[p]
       IN IF r.rt \notin DOMAIN tokens
          THEN \* the UPDATE matches no row
               /\ procs' = [procs EXCEPT ![p] = Done(r, "StaleDataError")]
               /\ UNCHANGED tokens
          ELSE /\ tokens' = expire_refresh_token(tokens, r.rt, r.ts)
               /\ procs' = [procs EXCEPT ![p] =
                     [Done(r, "LogoutOK") EXCEPT
                        !.setcookie = LogoutCookie(r.cookie, TRUE)]]
    /\ UNCHANGED <<now, ticks, users, nextId, issued>>
    /\ UNCHANGED library

\* expire_refresh_token(db, refresh_token_uuid) called directly:
\* get_refresh_token_by_uuid, `if token:` and the new expires_at
ExpireRefreshToken(p, uuid) ==
    /\ Ready(p)
    /\ LET r == [Request(p, "expire_refresh_token") EXCEPT
                    !.rt = uuid,
                    !.stale = (uuid \in DOMAIN tokens
                                 /\ is_refresh_token_expired(tokens[uuid], now))]
       IN procs' = [procs EXCEPT ![p] =
            IF uuid \in DOMAIN tokens
            THEN [r EXCEPT !.pc = "expire_commit", !.ts = now - RevokeBackdate]
            ELSE Done(r, "Returned")]
    /\ UNCHANGED <<now, ticks, users, nextId, tokens, issued>>
    /\ UNCHANGED library

\* expire_refresh_token called directly: the commit
ExpireRefreshTokenCommit(p) ==
    /\ procs[p].pc = "expire_commit"
    /\ LET r == procs[p]
       IN IF r.rt \notin DOMAIN tokens
          THEN \* the UPDATE matches no row
               /\ procs' = [procs EXCEPT ![p] = Done(r, "StaleDataError")]
               /\ UNCHANGED tokens
          ELSE /\ tokens' = expire_refresh_token(tokens, r.rt, r.ts)
               /\ procs' = [procs EXCEPT ![p] = Done(r, "Returned")]
    /\ UNCHANGED <<now, ticks, users, nextId, issued>>
    /\ UNCHANGED library

----------------------------------------------------------------------------
(* books/: the book table, the cache keys and the cached values *)

\* str.lower() on the characters of the inputs
LowerChar(c) ==
    CASE c = "A" -> "a" []
           c = "B" -> "b" []
           c = "C" -> "c" []
           c = "D" -> "d" []
           c = "E" -> "e" []
           c = "F" -> "f" []
           c = "G" -> "g" []
           c = "H" -> "h" []
           c = "I" -> "i" []
           c = "J" -> "j" []
           c = "K" -> "k" []
           c = "L" -> "l" []
           c = "M" -> "m" []
           c = "N" -> "n" []
           c = "O" -> "o" []
           c = "P" -> "p" []
           c = "Q" -> "q" []
           c = "R" -> "r" []
           c = "S" -> "s" []
           c = "T" -> "t" []
           c = "U" -> "u" []
           c = "V" -> "v" []
           c = "W" -> "w" []
           c = "X" -> "x" []
           c = "Y" -> "y" []
           c = "Z" -> "z" []
         OTHER -> c

Lower(s) == [i \in 1..Len(s) |-> LowerChar(s[i])]

\* str.strip()
Whitespace == {" ", "\n", "\t"}

RECURSIVE LStrip(_)
LStrip(s) == IF Len(s) > 0 /\ Head(s) \in Whitespace THEN LStrip(Tail(s)) ELSE s

RECURSIVE RStrip(_)
RStrip(s) ==
    IF Len(s) > 0 /\ s[Len(s)] \in Whitespace
    THEN RStrip(SubSeq(s, 1, Len(s) - 1)) ELSE s

\* books/dependencies.py validate_isbn_10: re.match(r"^\d{10}$", isbn.strip())
validate_isbn_10(isbn) ==
    LET stripped == RStrip(LStrip(isbn))
    IN /\ Len(stripped) = ISBN_DIGITS
       /\ \A i \in 1..Len(stripped) : stripped[i] \in PatternDigits

\* the repr of one field of a pydantic model: None, or the quoted string
ReprValue(v) == IF v = Nothing THEN <<"N", "o", "n", "e">> ELSE <<"'">> \o v[1] \o <<"'">>

\* str(search) of a BookSearchRequest, as the f-string of search_books
\* renders it
ReprStr(search) ==
    <<"t", "i", "t", "l", "e", "=">> \o ReprValue(search.title)
      \o <<" ", "a", "u", "t", "h", "o", "r", "=">> \o ReprValue(search.author)
      \o <<" ", "p", "u", "b", "l", "i", "c", "a", "t", "i", "o", "n", "_", "d", "a", "t", "e", "=">> \o ReprValue(search.publication_date)
      \o <<" ", "i", "s", "b", "n", "=">> \o ReprValue(search.isbn)

\* the cache keys of the three lookups: f"book:{isbn}",
\* f"book:{category_name}", f"book:{search}"
KeyPrefix == <<"b", "o", "o", "k", ":">>
IsbnKey(isbn) == KeyPrefix \o isbn
CategoryKey(category_name) == KeyPrefix \o category_name
SearchKey(search) == KeyPrefix \o ReprStr(search)

\* the inputs of the book endpoints
Isbn1 == <<"1", "2", "3", "4", "5", "6", "7", "8", "9", "0">>
ShortIsbn == <<"1", "2", "3", "4", "5">>
Isbns == {Isbn1, ShortIsbn}
Fiction == <<"f", "i", "c", "t", "i", "o", "n">>
Dune == <<"D", "u", "n", "e">>
SearchDune ==
    [title |-> Some(Dune), author |-> Nothing, publication_date |-> Nothing,
     isbn |-> Nothing]
Searches == {SearchDune}
CategoryNames == {Fiction, Isbn1, ReprStr(SearchDune)}

\* what the Google Books API answers for an ISBN: nothing, or a volume
\* whose categories are any strings
GoogleVolumes ==
    {[title |-> Dune, language |-> "en", publishedDate |-> "1965",
      categories |-> <<c>>] : c \in CategoryNames}

\* GoogleBooksService._parse_book_from_response: Book(isbn=isbn, ...), the
\* Category validator lower-casing each name
ParseBook(isbn, volume) ==
    [isbn |-> isbn, title |-> volume.title, language |-> volume.language,
     publication_date |-> volume.publishedDate, authors |-> <<>>,
     categories |-> [i \in 1..Len(volume.categories) |-> Lower(volume.categories[i])]]

\* book.model_dump_json() and json.dumps([book.model_dump_json() ...]): a
\* JSON object holding one book, a JSON array holding a list of them
BookJson(book) == [json |-> "object", items |-> <<book>>]
BooksJson(list) == [json |-> "array", items |-> list]

\* RedisService.get_by_key
get_by_key(key) == IF key \in DOMAIN cache THEN Some(cache[key]) ELSE Nothing

\* RedisService.set_key: SET key value (EXPIRE is the CacheExpire step)
set_key(store, redis_data) ==
    [k \in DOMAIN store \cup {redis_data.key} |->
        IF k = redis_data.key THEN redis_data.value ELSE store[k]]

\* BookService.create_book: the row it adds (BookModel.isbn carries an
\* index and no unique constraint)
create_book(rows, book) == Append(rows, book)

\* BookService.get_book_by_isbn: the rows .first() can return
ByIsbn(isbn) == {i \in DOMAIN books : books[i].isbn = isbn}

\* BookService.get_books_by_category: categories.any(name=category.lower())
get_books_by_category(category) ==
    SelectSeq(books, LAMBDA b : \E i \in 1..Len(b.categories) :
                                    b.categories[i] = Lower(category))

\* BookService.search_books: one filter per field that is set
search_books(search) ==
    SelectSeq(books, LAMBDA b :
        /\ search.title # Nothing => b.title = search.title[1]
        /\ search.author # Nothing
              => \E i \in 1..Len(b.authors) : b.authors[i] = search.author[1]
        /\ search.publication_date # Nothing
              => b.publication_date = search.publication_date[1]
        /\ search.isbn # Nothing => b.isbn = search.isbn[1])

\* worker.add_task(book_service.create_book, db, book) and
\* worker.add_task(cache.set_key, cache_data)
CreateBookTask(book) == [task |-> "create_book", book |-> Some(book), data |-> Nothing]
SetKeyTask(key, value) ==
    [task |-> "set_key", book |-> Nothing, data |-> Some([key |-> key, value |-> value])]

\* the response is sent; the background tasks of the request run after it
Respond(r, res, out, tasks) ==
    [r EXCEPT !.pc = IF tasks = <<>> THEN "done" ELSE "tasks",
              !.res = res, !.out = out, !.tasks = tasks]

\* a book endpoint is called by a client whose access token verified and
\* whose previous request has run its background tasks
LookupReady(p) == lookups[p].pc = "done"

\* GET /books/by-isbn/{isbn}: validate_isbn_10, cache.get_by_key and
\* Book(**json.loads(cached_book))
GetBookByIsbn(p, isbn) ==
    /\ LookupReady(p)
    /\ LET r == [IdleLookup EXCEPT !.op = "by_isbn", !.pc = "run", !.isbn = isbn]
           cached == get_by_key(IsbnKey(isbn))
       IN lookups' = [lookups EXCEPT ![p] =
            IF ~validate_isbn_10(isbn) THEN Respond(r, "HTTP_422", <<>>, <<>>)
            ELSE IF cached = Nothing THEN [r EXCEPT !.pc = "isbn_db"]
            ELSE IF cached[1].json # "object"
            THEN \* ** applied to a list
                 Respond([r EXCEPT !.cached = cached], "TypeError", <<>>, <<>>)
            ELSE Respond([r EXCEPT !.cached = cached], "BookOK",
                         cached[1].items, <<>>)]
    /\ UNCHANGED <<books, cache>>
    /\ UNCHANGED accounts

\* get_book_by_isbn: book_service.get_book_by_isbn; a row found is returned
\* and cached by a background task
GetBookByIsbnDb(p) ==
    /\ lookups[p].pc = "isbn_db"
    /\ LET r == lookups[p]
       IN IF ByIsbn(r.isbn) = {}
          THEN lookups' = [lookups EXCEPT ![p] = [r EXCEPT !.pc = "isbn_google"]]
          ELSE \E i \in ByIsbn(r.isbn) :
                 lookups' = [lookups EXCEPT ![p] =
                    Respond(r, "BookOK", <<books[i]>>,
                            <<SetKeyTask(IsbnKey(r.isbn), BookJson(books[i]))>>)]
    /\ UNCHANGED <<books, cache>>
    /\ UNCHANGED accounts

\* get_book_by_isbn: google_books_api.get_book_by_isbn; a book found is
\* returned, and created and cached by background tasks
GetBookByIsbnGoogle(p) ==
    /\ lookups[p].pc = "isbn_google"
    /\ LET r == lookups[p]
       IN \/ lookups' = [lookups EXCEPT ![p] =
                Respond(r, "BookNotFound", <<>>, <<>>)]
          \/ \E volume \in GoogleVolumes :
               LET book == ParseBook(r.isbn, volume)
               IN lookups' = [lookups EXCEPT ![p] =
                    Respond(r, "BookOK", <<book>>,
                            <<CreateBookTask(book),
                              SetKeyTask(IsbnKey(r.isbn), BookJson(book))>>)]
    /\ UNCHANGED <<books, cache>>
    /\ UNCHANGED accounts

\* what a list endpoint makes of a cached value:
\* [Book(**json.loads(book)) for book in json.loads(cached_books)]
CachedList(r, cached) ==
    IF cached[1].json # "array"
    THEN \* iterating the object yields its keys, which are no JSON
         Respond([r EXCEPT !.cached = cached], "JSONDecodeError", <<>>, <<>>)
    ELSE Respond([r EXCEPT !.cached = cached], "BooksOK", cached[1].items, <<>>)

\* GET /books/by-category/{category_name}: cache.get_by_key
GetBooksByCategory(p, category_name) ==
    /\ LookupReady(p)
    /\ LET r == [IdleLookup EXCEPT !.op = "by_category", !.pc = "run",
                                   !.category_name = category_name]
           cached == get_by_key(CategoryKey(category_name))
       IN lookups' = [lookups EXCEPT ![p] =
            IF cached = Nothing THEN [r EXCEPT !.pc = "category_db"]
            ELSE CachedList(r, cached)]
    /\ UNCHANGED <<books, cache>>
    /\ UNCHANGED accounts

\* get_books_by_category: book_service.get_books_by_category
GetBooksByCategoryDb(p) ==
    /\ lookups[p].pc = "category_db"
    /\ LET r == lookups[p]
           books_db == get_books_by_category(r.category_name)
       IN lookups' = [lookups EXCEPT ![p] =
            IF books_db = <<>> THEN Respond(r, "BookNotFound", <<>>, <<>>)
            ELSE Respond(r, "BooksOK", books_db,
                         <<SetKeyTask(CategoryKey(r.category_name),
                                      BooksJson(books_db))>>)]
    /\ UNCHANGED <<books, cache>>
    /\ UNCHANGED accounts

\* POST /books/search: cache.get_by_key
SearchBooks(p, search) ==
    /\ LookupReady(p)
    /\ LET r == [IdleLookup EXCEPT !.op = "search", !.pc = "run",
                                   !.search = Some(search)]
           cached == get_by_key(SearchKey(search))
       IN lookups' = [lookups EXCEPT ![p] =
            IF cached = Nothing THEN [r EXCEPT !.pc = "search_db"]
            ELSE CachedList(r, cached)]
    /\ UNCHANGED <<books, cache>>
    /\ UNCHANGED accounts

\* search_books: book_service.search_books
SearchBooksDb(p) ==
    /\ lookups[p].pc = "search_db"
    /\ LET r == lookups[p]
           books_db == search_books(r.search[1])
       IN lookups' = [lookups EXCEPT ![p] =
            IF books_db = <<>> THEN Respond(r, "BookNotFound", <<>>, <<>>)
            ELSE Respond(r, "BooksOK", books_db,
                         <<SetKeyTask(SearchKey(r.search[1]),
                                      BooksJson(books_db))>>)]
    /\ UNCHANGED <<books, cache>>
    /\ UNCHANGED accounts

\* starlette BackgroundTasks: the next task of a request that was answered
RunBackgroundTask(p) ==
    /\ lookups[p].pc = "tasks"
    /\ LET r == lookups[p]
           t == Head(r.tasks)
       IN /\ IF t.task = "create_book"
             THEN books' = create_book(books, t.book[1]) /\ UNCHANGED cache
             ELSE cache' = set_key(cache, t.data[1]) /\ UNCHANGED books
          /\ lookups' = [lookups EXCEPT ![p] =
                [r EXCEPT !.tasks = Tail(r.tasks),
                          !.pc = IF Tail(r.tasks) = <<>> THEN "done" ELSE "tasks"]]
    /\ UNCHANGED accounts

\* Redis drops a key whose ttl ran out
CacheExpire(key) ==
    /\ key \in DOMAIN cache
    /\ cache' = [k \in DOMAIN cache \ {key} |-> cache[k]]
    /\ UNCHANGED <<books, lookups>>
    /\ UNCHANGED accounts

----------------------------------------------------------------------------
(* The clock, and direct administration of the datastore *)

\* datetime.utcnow() between two steps
Tick(d) ==
    /\ ticks < MaxTicks
    /\ now' = now + d
    /\ ticks' = ticks + 1
    /\ UNCHANGED <<users, nextId, tokens, procs, issued>>
    /\ UNCHANGED library

\* a user row deleted in the datastore; refresh_token.user_id cascades
DeleteUser(id) ==
    /\ id \in DOMAIN users
    /\ users' = [i \in DOMAIN users \ {id} |-> users[i]]
    /\ tokens' = [u \in {x \in DOMAIN tokens : tokens[x].user_id # id} |-> tokens[u]]
    /\ UNCHANGED <<now, ticks, nextId, procs, issued>>
    /\ UNCHANGED library

\* a user's password column overwritten in the datastore (LargeBinary: any
\* bytes are accepted)
SetPassword(id, digest) ==
    /\ id \in DOMAIN users
    /\ users[id].password # digest
    /\ users' = [users EXCEPT ![id].password = digest]
    /\ UNCHANGED <<now, ticks, nextId, tokens, procs, issued>>
    /\ UNCHANGED library

\* a user's role updated in the datastore
SetRole(id, role) ==
    /\ id \in DOMAIN users
    /\ users[id].role # role
    /\ users' = [users EXCEPT ![id].role = role]
    /\ UNCHANGED <<now, ticks, nextId, tokens, procs, issued>>
    /\ UNCHANGED library

----------------------------------------------------------------------------
(* Specifications *)

\* registration of principals: self-registration and the createadmin command
Registration ==
    \/ \E p \in Sequential, u \in Usernames, e \in Emails, pw \in RegisterPasswords,
          ro \in UserRole : Register(p, u, e, pw, ro)
    \/ \E p \in Sequential : RegisterUsername(p)
    \/ \E p \in Sequential : RegisterCreate(p)
    \/ \E p \in Sequential, u \in Usernames, e \in Emails, pw \in RegisterPasswords :
          CreateAdmin(p, u, e, pw)
    \/ \E p \in Sequential : CreateAdminUsername(p)
    \/ \E p \in Sequential : CreateAdminCreate(p)

\* token exchange and the admin gate on the refresh path
Refresh ==
    \/ \E p \in Sequential, op \in RefreshOps, c \in Cookies : RefreshLookup(p, op, c)
    \/ \E p \in Sequential : RefreshUser(p)

LogoutSteps ==
    \/ \E p \in Sequential, c \in Cookies : Logout(p, c)
    \/ \E p \in Sequential : LogoutFind(p)
    \/ \E p \in Sequential : LogoutCommit(p)

\* access verification, with and without the admin gate
Access ==
    \E p \in Sequential, op \in AccessOps, t \in Presentable : AccessVerify(p, op, t)

\* every operation of the program, at one instant
NextOps ==
    \/ Registration
    \/ \E p \in Sequential, u \in Usernames, pw \in LoginPasswords : Login(p, u, pw)
    \/ \E p \in Sequential : LoginCreate(p)
    \/ Refresh
    \/ LogoutSteps
    \/ Access

SpecOps == Init /\ [][NextOps]_vars

\* one self-registered principal, its sessions and access tokens, while the
\* clock advances
NextClock ==
    \/ \E p \in Sequential, ro \in UserRole :
          Register(p, "alice", "alice@x.com", Pwd1, ro)
    \/ \E p \in Sequential : RegisterUsername(p)
    \/ \E p \in Sequential : RegisterCreate(p)
    \/ \E p \in Sequential, pw \in LoginPasswords : Login(p, "alice", pw)
    \/ \E p \in Sequential : LoginCreate(p)
    \/ Refresh
    \/ LogoutSteps
    \/ Access
    \/ \E d \in ClockSteps : Tick(d)

SpecClock == Init /\ [][NextClock]_vars

\* the datastore administered directly: rows deleted, roles updated
Administration ==
    \/ \E id \in DOMAIN users : DeleteUser(id)
    \/ \E id \in DOMAIN users, ro \in UserRole : SetRole(id, ro)

\* one principal, its logins, token exchanges and access verifications,
\* while the clock advances and the datastore is administered
NextEnv ==
    \/ \E p \in Sequential, ro \in UserRole :
          Register(p, "alice", "alice@x.com", Pwd1, ro)
    \/ \E p \in Sequential : RegisterUsername(p)
    \/ \E p \in Sequential : RegisterCreate(p)
    \/ \E p \in Sequential : Login(p, "alice", Pwd1)
    \/ \E p \in Sequential : LoginCreate(p)
    \/ Refresh
    \/ Access
    \/ \E d \in ClockSteps : Tick(d)
    \/ Administration

SpecEnv == Init /\ [][NextEnv]_vars

\* the password functions called directly, users created through the User
\* schema, their logins, and a password column overwritten in the datastore
NextUnit ==
    \/ \E p \in Sequential, pw \in PolicyInputs : IsStrongPassword(p, pw)
    \/ \E p \in Sequential, pw \in HashInputs : HashPassword(p, pw)
    \/ \E p \in Sequential, pw \in HashInputs, d \in Digests : CheckPassword(p, pw, d)
    \/ \E p \in Sequential, pw \in {Pwd1, TestPassword, WithUnicodeDigit}, ro \in UserRole :
          CreateUser(p, "alice", "alice@x.com", pw, ro)
    \/ \E p \in Sequential : CreateUserCreate(p)
    \/ \E p \in Sequential, pw \in LoginPasswords : Login(p, "alice", pw)
    \/ \E p \in Sequential : LoginCreate(p)
    \/ \E id \in DOMAIN users : SetPassword(id, MalformedDigest)

SpecUnit == Init /\ [][NextUnit]_vars

\* access tokens minted with any lifetime for a user and for an admin, and
\* their verification, while the clock advances
NextMint ==
    \/ \E p \in Sequential, ro \in UserRole :
          Register(p, "alice", "alice@x.com", Pwd1, ro)
    \/ \E p \in Sequential : RegisterUsername(p)
    \/ \E p \in Sequential : RegisterCreate(p)
    \/ \E p \in Sequential : CreateAdmin(p, "bob", "bob@x.com", Pwd1)
    \/ \E p \in Sequential : CreateAdminUsername(p)
    \/ \E p \in Sequential : CreateAdminCreate(p)
    \/ \E p \in Sequential, id \in DOMAIN users, ttl \in Lifetimes : Mint(p, id, ttl)
    \/ Access
    \/ \E d \in ClockSteps : Tick(d)

SpecMint == Init /\ [][NextMint]_vars

\* one client logs in and exchanges refresh values for access tokens while
\* another client's logout is in flight
NextRace ==
    \/ \E p \in Sequential, ro \in UserRole :
          Register(p, "alice", "alice@x.com", Pwd1, ro)
    \/ \E p \in Sequential : RegisterUsername(p)
    \/ \E p \in Sequential : RegisterCreate(p)
    \/ \E p \in Sequential : Login(p, "alice", Pwd1)
    \/ \E p \in Sequential : LoginCreate(p)
    \/ \E p \in Sequential, c \in Values : RefreshLookup(p, "token", c)
    \/ \E p \in Sequential : RefreshUser(p)
    \/ \E p \in Concurrent, c \in Values : Logout(p, c)
    \/ \E p \in Concurrent : LogoutFind(p)
    \/ \E p \in Concurrent : LogoutCommit(p)

SpecRace == Init /\ [][NextRace]_vars


\* two clients log in as the same principal and log out, in any
\* interleaving, while the first also exchanges refresh values
NextSessions ==
    \/ \E p \in Sequential, ro \in UserRole :
          Register(p, "alice", "alice@x.com", Pwd1, ro)
    \/ \E p \in Sequential : RegisterUsername(p)
    \/ \E p \in Sequential : RegisterCreate(p)
    \/ \E p \in Procs : Login(p, "alice", Pwd1)
    \/ \E p \in Procs : LoginCreate(p)
    \/ \E p \in Procs, c \in Values : Logout(p, c)
    \/ \E p \in Procs : LogoutFind(p)
    \/ \E p \in Procs : LogoutCommit(p)
    \/ \E p \in Sequential, c \in Values : RefreshLookup(p, "token", c)
    \/ \E p \in Sequential : RefreshUser(p)

SpecSessions == Init /\ [][NextSessions]_vars


\* expire_refresh_token called directly with any identifier, on the records
\* of one principal, while the clock advances
NextExpire ==
    \/ \E p \in Sequential : Register(p, "alice", "alice@x.com", Pwd1, USER)
    \/ \E p \in Sequential : RegisterUsername(p)
    \/ \E p \in Sequential : RegisterCreate(p)
    \/ \E p \in Sequential : Login(p, "alice", Pwd1)
    \/ \E p \in Sequential : LoginCreate(p)
    \/ \E p \in Sequential, u \in UUIDs : ExpireRefreshToken(p, u)
    \/ \E p \in Sequential : ExpireRefreshTokenCommit(p)
    \/ \E d \in ClockSteps : Tick(d)

SpecExpire == Init /\ [][NextExpire]_vars


\* passwords longer than bcrypt's 72 bytes: hashed and checked directly,
\* stored for a user created through the User schema, presented at login
NextBcrypt ==
    \/ \E p \in Sequential, pw \in LongInputs \cup {Pwd1} : HashPassword(p, pw)
    \/ \E p \in Sequential, pw \in LongInputs \cup {Pwd1}, d \in Digests :
          CheckPassword(p, pw, d)
    \/ \E p \in Sequential : CreateUser(p, "alice", "alice@x.com", LongX, USER)
    \/ \E p \in Sequential : CreateUserCreate(p)
    \/ \E p \in Sequential, pw \in LongInputs \cup {Pwd1} : Login(p, "alice", pw)
    \/ \E p \in Sequential : LoginCreate(p)

SpecBcrypt == Init /\ [][NextBcrypt]_vars


\* the three ways a principal is created: self-registration, the createadmin
\* command, and the admin's create-user endpoint after the admin logged in
NextCreate ==
    \/ \E p \in Sequential, pw \in RegisterPasswords :
          Register(p, "alice", "alice@x.com", pw, USER)
    \/ \E p \in Sequential : RegisterUsername(p)
    \/ \E p \in Sequential : RegisterCreate(p)
    \/ \E p \in Sequential, pw \in RegisterPasswords :
          CreateAdmin(p, "bob", "bob@x.com", pw)
    \/ \E p \in Sequential : CreateAdminUsername(p)
    \/ \E p \in Sequential : CreateAdminCreate(p)
    \/ \E p \in Sequential, u \in Usernames : Login(p, u, Pwd1)
    \/ \E p \in Sequential : LoginCreate(p)
    \/ \E p \in Sequential, c \in Values : RefreshLookup(p, "create", c)
    \/ \E p \in Sequential : RefreshUser(p)
    \/ \E p \in Sequential, u \in Usernames, e \in Emails, pw \in RegisterPasswords,
          ro \in UserRole : AdminCreateUser(p, u, e, pw, ro)
    \/ \E p \in Sequential : AdminCreateUserUsername(p)
    \/ \E p \in Sequential : AdminCreateUserCreate(p)

SpecCreate == Init /\ [][NextCreate]_vars


\* one principal logs in, exchanges the refresh value for an access token,
\* logs out and presents the access token, while the clock advances
NextAfterLogout ==
    \/ \E p \in Sequential : Register(p, "alice", "alice@x.com", Pwd1, USER)
    \/ \E p \in Sequential : RegisterUsername(p)
    \/ \E p \in Sequential : RegisterCreate(p)
    \/ \E p \in Sequential : Login(p, "alice", Pwd1)
    \/ \E p \in Sequential : LoginCreate(p)
    \/ \E p \in Sequential, c \in Values : RefreshLookup(p, "token", c)
    \/ \E p \in Sequential : RefreshUser(p)
    \/ \E p \in Sequential, c \in Values : Logout(p, c)
    \/ \E p \in Sequential : LogoutFind(p)
    \/ \E p \in Sequential : LogoutCommit(p)
    \/ \E p \in Sequential, t \in Presentable : AccessVerify(p, "verify", t)
    \/ \E d \in {1, JWT_EXP * SecondsPerMinute} : Tick(d)

SpecAfterLogout == Init /\ [][NextAfterLogout]_vars


\* registration requests of two clients in any interleaving: both
\* self-register, and the second, logged in as the admin the createadmin
\* command made, also uses the create-user endpoint
NextRegister ==
    \/ \E p \in Procs, u \in Usernames, e \in Emails : Register(p, u, e, Pwd1, USER)
    \/ \E p \in Procs : RegisterUsername(p)
    \/ \E p \in Procs : RegisterCreate(p)
    \/ \E p \in Concurrent : CreateAdmin(p, "bob", "bob@x.com", Pwd1)
    \/ \E p \in Concurrent : CreateAdminUsername(p)
    \/ \E p \in Concurrent : CreateAdminCreate(p)
    \/ \E p \in Concurrent : Login(p, "bob", Pwd1)
    \/ \E p \in Concurrent : LoginCreate(p)
    \/ \E p \in Concurrent, c \in Values : RefreshLookup(p, "create", c)
    \/ \E p \in Concurrent : RefreshUser(p)
    \/ \E p \in Concurrent, u \in Usernames, e \in Emails, ro \in UserRole :
          AdminCreateUser(p, u, e, Pwd1, ro)
    \/ \E p \in Concurrent : AdminCreateUserUsername(p)
    \/ \E p \in Concurrent : AdminCreateUserCreate(p)

SpecRegister == Init /\ [][NextRegister]_vars


\* the admin made by the createadmin command logs in; two clients present
\* the admin's refresh value to activate and block memberships
NextMembership ==
    \/ \E p \in Sequential : CreateAdmin(p, "bob", "bob@x.com", Pwd1)
    \/ \E p \in Sequential : CreateAdminUsername(p)
    \/ \E p \in Sequential : CreateAdminCreate(p)
    \/ \E p \in Sequential : Login(p, "bob", Pwd1)
    \/ \E p \in Sequential : LoginCreate(p)
    \/ \E p \in Procs, op \in {"activate", "block"}, c \in Values :
          RefreshLookup(p, op, c)
    \/ \E p \in Procs : RefreshUser(p)
    \/ \E p \in Procs, id \in 1..MaxUsers, ci \in ContactInputs :
          ChangeMembership(p, id, ci)
    \/ \E p \in Procs : ChangeMembershipCommit(p)

SpecMembership == Init /\ [][NextMembership]_vars


\* two clients look ISBNs up, in any interleaving with each other and with
\* the background tasks of answered requests, while cache keys expire
NextIsbn ==
    \/ \E p \in Procs, isbn \in Isbns : GetBookByIsbn(p, isbn)
    \/ \E p \in Procs : GetBookByIsbnDb(p)
    \/ \E p \in Procs : GetBookByIsbnGoogle(p)
    \/ \E p \in Procs : RunBackgroundTask(p)
    \/ \E key \in DOMAIN cache : CacheExpire(key)

SpecIsbn == Init /\ [][NextIsbn]_vars

\* one client uses the three cached lookups of the book endpoints
NextCache ==
    \/ \E p \in Sequential, isbn \in Isbns : GetBookByIsbn(p, isbn)
    \/ \E p \in Sequential : GetBookByIsbnDb(p)
    \/ \E p \in Sequential : GetBookByIsbnGoogle(p)
    \/ \E p \in Sequential, c \in CategoryNames : GetBooksByCategory(p, c)
    \/ \E p \in Sequential : GetBooksByCategoryDb(p)
    \/ \E p \in Sequential, s \in Searches : SearchBooks(p, s)
    \/ \E p \in Sequential : SearchBooksDb(p)
    \/ \E p \in Sequential : RunBackgroundTask(p)
    \/ \E key \in DOMAIN cache : CacheExpire(key)

SpecCache == Init /\ [][NextCache]_vars

----------------------------------------------------------------------------
(* Properties *)

\* the step, if any, that client p's own request takes
Stepped(p) == procs'[p] # procs[p]

\* client p starts a request of kind op in this step
Starts(p, op) == Stepped(p) /\ procs[p].pc = "done" /\ procs'[p].op = op

\* client p finished a request of kind op
Finished(p, op) == procs[p].op = op /\ procs[p].pc = "done"

GoodSignature(t) == t.sig = [key |-> JWT_SECRET, over |-> Payload(t)]

\* C1: once a record holding value v is revoked or past its expiry, every
\* token exchange started afterwards that presents v fails with
\* RefreshTokenNotValid.
C1_RevokedValueStaysDead ==
    \A p \in Procs :
        (Finished(p, "token") /\ procs[p].stale)
            => procs[p].res = "RefreshTokenNotValid"

\* C2: token exchange decides in order: no value -> AuthRequired; no record
\* with the value -> RefreshTokenNotValid; record expired (now strictly after
\* its expiry) -> RefreshTokenNotValid; owner gone -> RefreshTokenNotValid;
\* otherwise an access token whose subject is the record's owner.
C2_LookupDecision(p) ==
    LET r == procs'[p]
    IN IF r.cookie \in {NoCookie, EmptyCookie}
       THEN r.pc = "done" /\ r.res = "AuthRequired"
       ELSE IF \A u \in DOMAIN tokens : tokens[u].refresh_token # r.cookie
       THEN r.pc = "done" /\ r.res = "RefreshTokenNotValid"
       ELSE /\ r.rt \in DOMAIN tokens
            /\ tokens[r.rt].refresh_token = r.cookie
            /\ IF now > tokens[r.rt].expires_at
               THEN r.pc = "done" /\ r.res = "RefreshTokenNotValid"
               ELSE r.pc = "refresh_user" /\ r.uid = tokens[r.rt].user_id

C2_OwnerDecision(p) ==
    LET r == procs'[p]
    IN /\ r.pc = "done"
       /\ IF procs[p].uid \notin DOMAIN users
          THEN r.res = "RefreshTokenNotValid" /\ issued' = issued
          ELSE /\ r.res = "TokenOK"
               /\ r.token # Nothing
               /\ issued' = r.token
               /\ GoodSignature(r.token[1])
               /\ r.token[1].sub = DigitsOf(procs[p].uid)

C2_ExchangeOrder ==
    [][\A p \in Procs :
         /\ Starts(p, "token") => C2_LookupDecision(p)
         /\ (Stepped(p) /\ procs[p].op = "token" /\ procs[p].pc = "refresh_user")
               => C2_OwnerDecision(p)]_vars

\* an exchange succeeded on a record whose expiry equals the current time
C2_Witness ==
    \E p \in Procs :
        /\ Finished(p, "token")
        /\ procs[p].res = "TokenOK"
        /\ procs[p].rt \in DOMAIN tokens
        /\ tokens[procs[p].rt].expires_at = now

\* C3: access verification yields AccessTokenRequired without a token,
\* AccessTokenExpired for a well-signed token past its expiry,
\* AccessTokenInvalid for a bad signature or a subject that no longer
\* exists, otherwise the principal whose id is the subject; an expired
\* well-signed token is never Invalid, a badly signed one never Expired.
C3_Outcome(p) ==
    LET r == procs'[p]
    IN /\ r.pc = "done"
       /\ IF r.token = Nothing THEN r.res = "AccessTokenRequired"
          ELSE LET t == r.token[1]
               IN IF ~GoodSignature(t) THEN r.res = "AccessTokenInvalid"
                  ELSE IF t.exp < now THEN r.res = "AccessTokenExpired"
                  ELSE IF \A id \in DOMAIN users : DigitsOf(id) # t.sub
                  THEN r.res = "AccessTokenInvalid"
                  ELSE /\ r.res = "VerifyOK"
                       /\ \E id \in DOMAIN users :
                            /\ DigitsOf(id) = t.sub
                            /\ r.uid = id
                            /\ r.principal = Some(users[id])

C3_VerifyOutcomes ==
    [][\A p \in Procs : Starts(p, "verify") => C3_Outcome(p)]_vars

\* a well-signed token was reported expired
C3_Witness ==
    \E p \in Procs :
        /\ Finished(p, "verify")
        /\ procs[p].res = "AccessTokenExpired"
        /\ GoodSignature(procs[p].token[1])

\* C4: a second logout in a row, with no valid refresh credential present
\* (absent, or its value already revoked), returns success like the first.
C4_LogoutIdempotent ==
    \A p \in Procs :
        (/\ Finished(p, "logout")
         /\ procs[p].afterLogout
         /\ \/ procs[p].cookie = NoCookie
            \/ \A u \in ByValue(procs[p].cookie) : now > tokens[u].expires_at)
            => procs[p].res = "LogoutOK"

\* the cookie deletion a response carries
ClearsCookie(r) ==
    /\ r.setcookie # Nothing
    /\ r.setcookie[1].action = "delete"
    /\ r.setcookie[1].key = REFRESH_TOKEN_KEY

C6_Cause(p) ==
    LET r == procs'[p]
    IN IF \A id \in DOMAIN users : users[id].username # r.username
       THEN "unknown username"
       ELSE IF \A id \in DOMAIN users :
                  users[id].username = r.username => users[id].password.of # Utf8(r.password)
       THEN "wrong password"
       ELSE "none"

C7_UniqueValues ==
    \A u1, u2 \in DOMAIN tokens :
        tokens[u1].refresh_token = tokens[u2].refresh_token => u1 = u2

\* C8: logout never removes a refresh-token record; revocation only sets the
\* record's expiry to a time strictly before the current time, so the set
\* of stored records never shrinks.
C8_RecordsNeverShrink ==
    [][/\ DOMAIN tokens \subseteq DOMAIN tokens'
       /\ \A u \in DOMAIN tokens :
            tokens'[u] # tokens[u]
              => /\ tokens'[u] = [tokens[u] EXCEPT !.expires_at = tokens'[u].expires_at]
                 /\ tokens'[u].expires_at < now'
                 /\ \E p \in Procs : procs'[p].op = "logout" /\ Stepped(p)]_vars

\* a logout revoked a record, which is still stored
C8_Witness ==
    \E p \in Procs :
        /\ Finished(p, "logout")
        /\ procs[p].rt \in DOMAIN tokens
        /\ tokens[procs[p].rt].expires_at < now
        /\ ticks > 0

\* C9: access verification returns the principal as stored now, not the
\* token's claims: after a role change the next verification of the still
\* valid token returns the new role, and the admin gate decides on it.
C9_Decision(p) ==
    LET r == procs'[p]
    IN r.principal # Nothing =>
         \E id \in DOMAIN users :
            /\ DigitsOf(id) = r.token[1].sub
            /\ r.principal[1].role = users[id].role
            /\ r.op = "admin_access" =>
                  r.res = (IF users[id].role = ADMIN THEN "AdminOK"
                           ELSE "AuthorizationFailed")

C9_CurrentRoleDecides ==
    [][\A p \in Procs :
         (Starts(p, "verify") \/ Starts(p, "admin_access")) => C9_Decision(p)]_vars

\* a token minted for an admin no longer passes the gate after the role
\* was changed to user
C9_Witness ==
    \E p \in Procs :
        /\ Finished(p, "admin_access")
        /\ procs[p].res = "AuthorizationFailed"
        /\ GoodSignature(procs[p].token[1])
        /\ procs[p].token[1].is_admin

\* C10: no sequence of register, login, token exchange, access verification
\* and logout lets a self-registered principal pass the admin gate:
\* registration stores role USER whatever the request carries, no operation
\* changes a stored role, and the gate fails with AuthorizationFailed.
C10_SelfRegisteredNeverAdmin ==
    [][/\ \A id \in DOMAIN users' :
            users'[id].via = "register" => users'[id].role = USER
       /\ \A id \in DOMAIN users :
            id \in DOMAIN users' /\ users'[id].role = users[id].role
       /\ \A p \in Procs :
            (/\ procs'[p].op \in {"admin_refresh", "admin_access"}
             /\ procs'[p].pc = "done"
             /\ procs'[p].principal # Nothing
             /\ procs'[p].principal[1].via = "register")
               => procs'[p].res = "AuthorizationFailed"]_vars

\* a self-registered principal reached the gate with a valid refresh token
\* and was turned away
C10_Witness ==
    \E p \in Procs :
        /\ Finished(p, "admin_refresh")
        /\ procs[p].res = "AuthorizationFailed"
        /\ procs[p].principal # Nothing
        /\ procs[p].principal[1].via = "register"

\* C11: the admin gate, on the refresh path and on the access path, fails
\* with AuthorizationFailed for every verified principal whose role is not
\* ADMIN, passes a principal with role ADMIN through unchanged, has no other
\* outcome and changes no stored state.
C11_Gate(p) ==
    LET r == procs'[p]
    IN /\ r.uid \in DOMAIN users
       /\ r.principal = Some(users[r.uid])
       /\ r.res = (IF users[r.uid].role = ADMIN THEN "AdminOK"
                   ELSE "AuthorizationFailed")
       /\ users' = users
       /\ tokens' = tokens

C11_AdminGate ==
    [][\A p \in Procs :
         (/\ Stepped(p)
          /\ procs'[p].op \in {"admin_refresh", "admin_access"}
          /\ procs'[p].pc = "done"
          /\ procs'[p].principal # Nothing) => C11_Gate(p)]_vars

\* a principal with role ADMIN passed the gate on the refresh path
C11_Witness ==
    \E p \in Procs :
        /\ Finished(p, "admin_refresh")
        /\ procs[p].res = "AdminOK"
        /\ procs[p].principal # Nothing
        /\ procs[p].principal[1].role = ADMIN

\* C12: an access token minted for a stored principal X with a positive
\* lifetime carries the claims subject = X.id and admin flag =
\* (X.role = ADMIN), and verifying it at the instant it was minted succeeds
\* for X.
C12_Minted(p) ==
    LET r == procs'[p]
        t == r.token[1]
    IN /\ jwt_decode(t, JWT_SECRET, now') = "ok"
       /\ JWTData(t).user_id = r.uid
       /\ JWTData(t).is_admin = (users[r.uid].role = ADMIN)

C12_Verified(p) ==
    LET r == procs'[p]
    IN /\ r.res = "VerifyOK"
       /\ r.uid = procs[p].uid
       /\ r.principal = Some(users[r.uid])

C12_RoundTrip ==
    [][\A p \in Procs :
         /\ (Starts(p, "mint") /\ procs'[p].out[1] > 0) => C12_Minted(p)
         /\ (/\ Starts(p, "verify")
             /\ procs[p].op = "mint"
             /\ procs[p].out[1] > 0
             /\ procs[p].ts = now
             /\ procs'[p].token = procs[p].token) => C12_Verified(p)]_vars

\* a token minted for an admin with a lifetime of one second was verified
\* at the instant it was minted
C12_Witness ==
    \E p \in Procs :
        /\ Finished(p, "verify")
        /\ procs[p].res = "VerifyOK"
        /\ procs[p].token[1].exp = now + 1
        /\ procs[p].token[1].is_admin
        /\ ticks > 0

\* C13: is_strong_password(p) is true exactly when the length of p is within
\* [MIN_PASSWORD_LENGTH, MAX_PASSWORD_LENGTH] and p contains a digit, a
\* letter and a special symbol.
C13_StrongIff ==
    \A p \in Procs :
        Finished(p, "is_strong_password")
            => procs[p].out = Some(/\ Len(procs[p].password) >= MIN_PASSWORD_LENGTH
                                   /\ Len(procs[p].password) <= MAX_PASSWORD_LENGTH
                                   /\ HasChar(procs[p].password, PatternDigits)
                                   /\ HasChar(procs[p].password, AsciiLetters)
                                   /\ HasChar(procs[p].password, SpecialSymbols))

\* C14: the policy accepts "Test_password1!": is_strong_password is true for
\* it and the User schema built with it validates, so that create_user is
\* reached.
C14_AcceptsTestPassword ==
    \A p \in Procs :
        /\ (Finished(p, "is_strong_password") /\ procs[p].password = TestPassword)
              => procs[p].out = Some(TRUE)
        /\ (Finished(p, "create_user") /\ procs[p].password = TestPassword)
              => procs[p].res # "ValidationError"

C16_Hashed(p) ==
    LET r == procs'[p]
    IN /\ check_password(r.password, r.out[1]) = [raised |-> None, value |-> TRUE]
       /\ r.prev # Nothing
            => (r.prev[1].digest = r.out[1] <=> r.prev[1].salt = r.salt)

C16_Stored(p) ==
    LET row == users'[procs'[p].uid]
    IN /\ \E salt \in Salts : row.password = BcryptDigest(Utf8(procs[p].password), salt)
       /\ check_password(procs[p].password, row.password)
            = [raised |-> None, value |-> TRUE]

C17_CheckNeverRaises ==
    \A p \in Procs :
        /\ Finished(p, "check_password")
              => /\ procs[p].out[1].raised = None
                 /\ procs[p].digest = Some(MalformedDigest)
                      => procs[p].out[1].value = FALSE
        /\ (/\ Finished(p, "login")
             /\ \E id \in DOMAIN users :
                  /\ users[id].username = procs[p].username
                  /\ users[id].password = MalformedDigest)
              => procs[p].res = "InvalidCredentials"

\* C18: a successful login adds exactly one refresh-token record, owned by
\* the authenticated principal, expiring at creation time plus
\* REFRESH_TOKEN_EXP (the cookie's max-age), and hands its value to the
\* caller in the cookie; a login that fails adds no record, sets no cookie
\* and leaves the store unchanged.
C18_OneRecord(p) ==
    \E u \in DOMAIN tokens' \ DOMAIN tokens :
        /\ DOMAIN tokens' = DOMAIN tokens \cup {u}
        /\ \A v \in DOMAIN tokens : tokens'[v] = tokens[v]
        /\ procs[p].uid \in DOMAIN users
        /\ users[procs[p].uid].username = procs[p].username
        /\ tokens'[u].user_id = procs[p].uid
        /\ tokens'[u].expires_at = now + REFRESH_TOKEN_EXP
        /\ procs'[p].setcookie =
              Some([action |-> "set", key |-> REFRESH_TOKEN_KEY,
                    value |-> tokens'[u].refresh_token,
                    max_age |-> REFRESH_TOKEN_EXP])
        /\ users' = users

C18_LoginAddsOneRecord ==
    [][\A p \in Procs :
         (Stepped(p) /\ procs'[p].op = "login")
            => IF procs'[p].res = "LoginOK"
               THEN C18_OneRecord(p)
               ELSE /\ tokens' = tokens
                    /\ users' = users
                    /\ procs'[p].setcookie = Nothing]_vars

\* a second login succeeded after the clock advanced: two records are
\* stored, the newer one expiring REFRESH_TOKEN_EXP from now
C18_Witness ==
    \E p \in Procs :
        /\ Finished(p, "login")
        /\ procs[p].res = "LoginOK"
        /\ ticks > 0
        /\ Cardinality(DOMAIN tokens) = 2
        /\ procs[p].rt \in DOMAIN tokens
        /\ tokens[procs[p].rt].expires_at = now + REFRESH_TOKEN_EXP

\* C19: token exchange and access verification only read the datastore:
\* whether they succeed or fail, every step they take leaves the
\* refresh-token records and the principals as they were.
C19_ReadOnly ==
    [][\A p \in Procs :
         (Stepped(p) /\ procs'[p].op \in {"token", "verify"})
            => tokens' = tokens /\ users' = users]_vars

\* an exchange returned an access token and the record it presented is
\* still live
C19_Witness ==
    \E p \in Procs :
        /\ Finished(p, "token")
        /\ procs[p].res = "TokenOK"
        /\ procs[p].rt \in DOMAIN tokens
        /\ tokens[procs[p].rt].expires_at > now

\* C20: however a logout and a token exchange presenting the same value
\* interleave, neither crashes; an exchange whose lookup found the live
\* record before the revocation was committed returns an access token, and
\* an exchange whose lookup comes after the commit of a revocation of that
\* value fails with RefreshTokenNotValid.
C20_LogoutExchangeRace ==
    \A p \in Procs :
        /\ Finished(p, "logout") => procs[p].res = "LogoutOK"
        /\ Finished(p, "token")
              => /\ procs[p].res \in {"TokenOK", "RefreshTokenNotValid"}
                 /\ procs[p].stale => procs[p].res = "RefreshTokenNotValid"
                 /\ (~procs[p].stale /\ procs[p].rt # 0) => procs[p].res = "TokenOK"

\* C21: logins for the same principal, concurrent ones included, each add
\* their own refresh-token record and leave the others alone; a logout
\* presenting value v changes at most one record, which holds v, and every
\* other record keeps its expiry and remains exchangeable: an exchange
\* presenting the value of a live record is not rejected.
C21_OwnRecord(p) ==
    \E u \in DOMAIN tokens' \ DOMAIN tokens :
        /\ DOMAIN tokens' = DOMAIN tokens \cup {u}
        /\ \A v \in DOMAIN tokens : tokens'[v] = tokens[v]
        /\ tokens'[u].user_id = procs[p].uid
        /\ procs'[p].rt = u

C21_RevokesOne(p) ==
    /\ DOMAIN tokens' = DOMAIN tokens
    /\ \A u \in DOMAIN tokens : u # procs[p].rt => tokens'[u] = tokens[u]
    /\ tokens' # tokens
          => /\ procs[p].pc = "logout_commit"
             /\ tokens[procs[p].rt].refresh_token = procs[p].cookie
             /\ tokens'[procs[p].rt].refresh_token = procs[p].cookie

C21_StillExchangeable(p) ==
    (\E u \in ByValue(procs'[p].cookie) : ~is_refresh_token_expired(tokens[u], now))
        => procs'[p].res # "RefreshTokenNotValid"

C21_SessionsIndependent ==
    [][\A p \in Procs :
         /\ (Stepped(p) /\ procs'[p].op = "login" /\ procs'[p].res = "LoginOK")
               => C21_OwnRecord(p)
         /\ (Stepped(p) /\ procs'[p].op = "logout") => C21_RevokesOne(p)
         /\ Starts(p, "token") => C21_StillExchangeable(p)]_vars

\* the same, for the runs in which no two records hold the same value
C21_SessionsIndependentUnique ==
    [][C7_UniqueValues =>
        \A p \in Procs :
         /\ (Stepped(p) /\ procs'[p].op = "login" /\ procs'[p].res = "LoginOK")
               => C21_OwnRecord(p)
         /\ (Stepped(p) /\ procs'[p].op = "logout") => C21_RevokesOne(p)
         /\ Starts(p, "token") => C21_StillExchangeable(p)]_vars

\* both clients logged in as the same principal, one logged out, and the
\* other's record is live
C21_TwoSessions ==
    /\ Finished("c1", "login") /\ procs["c1"].res = "LoginOK"
    /\ Finished("c2", "logout") /\ procs["c2"].res = "LogoutOK"
    /\ procs["c2"].setcookie # Nothing
    /\ Cardinality(DOMAIN tokens) = 2
    /\ \E u \in DOMAIN tokens : tokens[u].expires_at < now
    /\ \E u \in DOMAIN tokens : tokens[u].expires_at > now

\* C22: expire_refresh_token is idempotent. Called with an identifier that
\* has no record it changes nothing and returns; called on any record,
\* live, revoked or naturally expired, it returns and leaves that record
\* stored with its expiry in the past and every other record as it was;
\* applying the update twice gives what applying it once gives.
C22_Call(p) ==
    /\ procs'[p].pc = "done" => procs'[p].res = "Returned"
    /\ users' = users
    /\ procs'[p].rt \notin DOMAIN tokens
          => tokens' = tokens /\ procs'[p].pc = "done"
    /\ procs[p].pc = "expire_commit"
          => /\ DOMAIN tokens' = DOMAIN tokens
             /\ \A u \in DOMAIN tokens : u # procs[p].rt => tokens'[u] = tokens[u]
             /\ procs[p].rt \in DOMAIN tokens'
             /\ tokens'[procs[p].rt].expires_at < now
             /\ is_refresh_token_expired(tokens'[procs[p].rt], now)
             /\ tokens'[procs[p].rt].refresh_token = tokens[procs[p].rt].refresh_token
             /\ tokens'[procs[p].rt].user_id = tokens[procs[p].rt].user_id
             /\ expire_refresh_token(tokens', procs[p].rt, procs[p].ts) = tokens'

C22_ExpireIdempotent ==
    [][\A p \in Procs :
         (Stepped(p) /\ procs'[p].op = "expire_refresh_token") => C22_Call(p)]_vars

\* expire_refresh_token returned for a record that was already expired when
\* it was called, after the clock advanced
C22_Witness ==
    \E p \in Procs :
        /\ Finished(p, "expire_refresh_token")
        /\ procs[p].res = "Returned"
        /\ procs[p].stale
        /\ ticks > 0
        /\ procs[p].rt \in DOMAIN tokens
        /\ tokens[procs[p].rt].expires_at < now

\* C23: is_strong_password returns false for the empty string; it accepts a
\* password of exactly the minimum or exactly the maximum length that has a
\* digit, a letter and a special symbol; and it rejects every string holding
\* a character that is no ASCII letter, no ASCII digit and no special
\* symbol, non-ASCII characters and a trailing newline included.
C23_Allowed == AsciiLetters \cup AsciiDigits \cup SpecialSymbols

C23_EdgeCase(pw, out) ==
    /\ pw = EmptyPassword => out = Some(FALSE)
    /\ (/\ Len(pw) \in {MIN_PASSWORD_LENGTH, MAX_PASSWORD_LENGTH}
        /\ \A i \in 1..Len(pw) : pw[i] \in C23_Allowed
        /\ HasChar(pw, AsciiDigits)
        /\ HasChar(pw, AsciiLetters)
        /\ HasChar(pw, SpecialSymbols)) => out = Some(TRUE)
    /\ (\E i \in 1..Len(pw) : pw[i] \notin C23_Allowed) => out = Some(FALSE)

C23_EdgeCases ==
    \A p \in Procs :
        Finished(p, "is_strong_password")
            => C23_EdgeCase(procs[p].password, procs[p].out)

\* the same, for every input but the one with a trailing newline and the
\* one with a digit that is not an ASCII digit
C23_EdgeCasesOtherwise ==
    \A p \in Procs :
        (Finished(p, "is_strong_password")
           /\ procs[p].password \notin {WithNewline, WithUnicodeDigit})
            => C23_EdgeCase(procs[p].password, procs[p].out)

\* C24: hash_password never silently truncates: for two different passwords
\* p and q that the policy accepts, check_password(q, hash_password(p)) is
\* false, and a password longer than the limit of the hashing primitive is
\* rejected by hash_password rather than hashed by its prefix.
C24_NoSilentTruncation ==
    \A p \in Procs :
        /\ (/\ Finished(p, "check_password")
            /\ is_strong_password(procs[p].password)
            /\ \E pw \in LongInputs \cup HashInputs, salt \in Salts :
                 /\ pw # procs[p].password
                 /\ is_strong_password(pw)
                 /\ procs[p].digest = Some(hash_password(pw, salt)))
              => procs[p].out[1].value = FALSE
        /\ (/\ Finished(p, "hash_password")
            /\ Len(Utf8(procs[p].password)) > BCRYPT_MAX_BYTES)
              => procs[p].res = "ValueError"

\* the same, for passwords of at most 72 bytes
C24_NoCollisionWithinLimit ==
    \A p \in Procs :
        (/\ Finished(p, "check_password")
         /\ Len(Utf8(procs[p].password)) <= BCRYPT_MAX_BYTES
         /\ \E pw \in LongInputs \cup HashInputs, salt \in Salts :
              /\ pw # procs[p].password
              /\ procs[p].digest = Some(hash_password(pw, salt)))
            => procs[p].out[1].value = FALSE

\* a user created with one 73-character password is authenticated with
\* another that shares its first 72 bytes
C24_LoginWithOtherPassword ==
    \E p \in Procs :
        /\ procs[p].op = "login"
        /\ procs[p].pc = "login_create"
        /\ procs[p].password = LongY
        /\ users[procs[p].uid].via = "create_user"
        /\ users[procs[p].uid].password.of = BcryptKey(Utf8(LongX))

\* C25: on every creation path (self-registration, the admin create-user
\* endpoint, the createadmin command) a principal is added only by a request
\* whose plaintext password is_strong_password accepted, and is stored with
\* a digest of that plaintext; a request whose password the policy rejects
\* ends in a validation error and never changes the principal store.
C25_CreationOps == {"register", "create", "createadmin"}

C25_Added(p) ==
    \E id \in DOMAIN users' \ DOMAIN users :
        /\ DOMAIN users' = DOMAIN users \cup {id}
        /\ \A i \in DOMAIN users : users'[i] = users[i]
        /\ procs[p].op \in C25_CreationOps
        /\ is_strong_password(procs[p].password)
        /\ \E salt \in Salts :
             users'[id].password = hash_password(procs[p].password, salt)

C25_PolicyBeforePersistence ==
    [][/\ users' # users => \E p \in Procs : Stepped(p) /\ C25_Added(p)
       /\ \A p \in Procs :
            /\ (/\ Stepped(p)
                /\ procs'[p].op \in C25_CreationOps
                /\ procs'[p].res \in {"RequestValidationError", "ValidationError"})
                  => users' = users
            /\ (/\ Stepped(p)
                /\ procs[p].op \in C25_CreationOps
                /\ procs[p].pc # "done"
                /\ ~is_strong_password(procs[p].password))
                  => users' = users]_vars

\* the admin's create-user request stored a second principal
C25_Witness ==
    \E p \in Procs, id \in DOMAIN users :
        /\ Finished(p, "create")
        /\ procs[p].res = "Created"
        /\ procs[p].uid = id
        /\ users[id].via = "create"
        /\ \E a \in DOMAIN users : users[a].via = "createadmin"

\* C26: logout does not invalidate access tokens: whatever the refresh-token
\* records are, revoked ones included, the outcome of an access
\* verification is decided by the token's signature, its expiry and the
\* principal store alone, so a token minted before the logout verifies to
\* its principal until its own expiry.
C26_Outcome(t) ==
    IF t = Nothing THEN "AccessTokenRequired"
    ELSE IF ~GoodSignature(t[1]) THEN "AccessTokenInvalid"
    ELSE IF t[1].exp < now THEN "AccessTokenExpired"
    ELSE IF \A id \in DOMAIN users : DigitsOf(id) # t[1].sub THEN "AccessTokenInvalid"
    ELSE "VerifyOK"

C26_AccessSurvivesLogout ==
    [][\A p \in Procs :
         Starts(p, "verify")
            => /\ procs'[p].res = C26_Outcome(procs'[p].token)
               /\ procs'[p].res = "VerifyOK"
                    => \E id \in DOMAIN users :
                         /\ DigitsOf(id) = procs'[p].token[1].sub
                         /\ procs'[p].principal = Some(users[id])
               /\ tokens' = tokens]_vars

\* right after its logout, with every refresh-token record revoked, a
\* client's access token minted before the logout verified to its principal
C26_Witness ==
    \E p \in Procs :
        /\ Finished(p, "verify")
        /\ procs[p].res = "VerifyOK"
        /\ procs[p].afterLogout
        /\ tokens # <<>>
        /\ \A u \in DOMAIN tokens : tokens[u].expires_at < now
        /\ procs[p].principal # Nothing

\* C27: after any interleaving of registration requests (self-registration
\* and the admin's create-user) no two stored principals share a username
\* or an email; a request whose email is taken when it is looked up fails
\* with EmailTaken, whatever its username, one whose username is taken when
\* it is looked up fails with UsernameTaken, and a request that reaches the
\* insert adds one principal unless its username or email was taken
\* meanwhile, in which case it adds none.
C27_Ops == {"register", "create"}

C27_Unique ==
    \A i, j \in DOMAIN users :
        i # j => /\ users[i].username # users[j].username
                 /\ users[i].email # users[j].email

C27_Step(p) ==
    /\ (procs[p].pc \in {"done", "admin_body"}
          /\ procs'[p].res # "RequestValidationError")
          => /\ procs'[p].res = "EmailTaken" <=> ByEmail(procs'[p].email) # {}
             /\ users' = users
    /\ procs[p].pc \in {"reg_username", "create_username"}
          => /\ procs'[p].res = "UsernameTaken" <=> ByUsername(procs[p].username) # {}
             /\ users' = users
    /\ procs[p].pc \in {"reg_create", "create_create"}
          => IF ByUsername(procs[p].username) # {} \/ ByEmail(procs[p].email) # {}
             THEN users' = users /\ procs'[p].res # "Created"
             ELSE /\ procs'[p].res = "Created"
                  /\ Cardinality(DOMAIN users') = Cardinality(DOMAIN users) + 1
                  /\ users'[procs'[p].uid].username = procs[p].username
                  /\ users'[procs'[p].uid].email = procs[p].email

C27_UniquePrincipals ==
    [][/\ C27_Unique'
       /\ \A p \in Procs :
            (Stepped(p) /\ procs'[p].op \in C27_Ops /\ procs[p].pc # "refresh_user"
                        /\ ~(procs[p].pc = "done" /\ procs'[p].op = "create"))
               => C27_Step(p)]_vars

\* two concurrent requests for the same username passed both lookups; one
\* created the principal and the other added nothing
C27_Witness ==
    /\ Finished("c1", "register")
    /\ procs["c2"].op \in C27_Ops /\ procs["c2"].pc = "done"
    /\ procs["c1"].username = procs["c2"].username
    /\ {procs["c1"].res, procs["c2"].res} = {"Created", "IntegrityError"}
    /\ Cardinality(ByUsername(procs["c1"].username)) = 1

\* C28: whenever activate_membership returns without error the user's
\* stored membership status is ACTIVE, and whenever block_membership
\* returns without error it is BLOCKED, the status the endpoint reports;
\* activate on a non-member without contact information fails with
\* ContactInformationNotProvided, block on a non-member with
\* UserIsNotLibraryMember, either on an unknown user with UserNotFound, and
\* a failing request leaves the store unchanged.
C28_Ops == {"activate", "block"}

C28_Returned(p) ==
    LET r == procs'[p]
    IN /\ r.user_id \in DOMAIN users'
       /\ users'[r.user_id].library_member # Nothing
       /\ users'[r.user_id].library_member[1].membership_status = ReportedStatus(r.op)
       /\ r.out = Some(ReportedStatus(r.op))
       /\ r.op = "activate" <=> r.out = Some(ACTIVE)

C28_Body(p) ==
    LET r == procs'[p]
        known == r.user_id \in DOMAIN users
        member == known /\ users[r.user_id].library_member # Nothing
    IN /\ ~known <=> r.res = "UserNotFound"
       /\ (known /\ ~member /\ r.op = "activate"
             /\ r.contact_information \in {None, ""})
             <=> r.res = "ContactInformationNotProvided"
       /\ (known /\ ~member /\ r.op = "block") <=> r.res = "UserIsNotLibraryMember"
       /\ users' = users

C28_MembershipToggle ==
    [][\A p \in Procs :
         (Stepped(p) /\ procs'[p].op \in C28_Ops)
            => /\ (procs'[p].pc = "done" /\ procs'[p].res = "MembershipOK")
                     => C28_Returned(p)
               /\ procs[p].pc = "admin_body" => C28_Body(p)
               /\ (procs'[p].pc = "done" /\ procs'[p].res # "MembershipOK")
                     => users' = users]_vars

\* an active member was blocked: the endpoint reported BLOCKED and the
\* stored status is BLOCKED
C28_Witness ==
    \E p \in Procs :
        /\ Finished(p, "block")
        /\ procs[p].res = "MembershipOK"
        /\ procs[p].out = Some(BLOCKED)
        /\ procs[p].user_id \in DOMAIN users
        /\ users[procs[p].user_id].library_member # Nothing
        /\ users[procs[p].user_id].library_member[1].membership_status = BLOCKED

\* C29: under any interleaving of ISBN lookups and their background
\* create_book tasks, the book store never holds two book records with the
\* same ISBN.
C29_OneRecordPerIsbn ==
    \A i, j \in DOMAIN books : books[i].isbn = books[j].isbn => i = j

\* C30: the cache keys of the ISBN lookup, the category-name lookup and the
\* search lookup never coincide, so an ISBN lookup never receives a cached
\* list of books and a category or search lookup never receives a cached
\* single book.
C30_KeysDisjoint ==
    /\ \A isbn \in Isbns, c \in CategoryNames, s \in Searches :
          validate_isbn_10(isbn)
             => /\ IsbnKey(isbn) # CategoryKey(c)
                /\ IsbnKey(isbn) # SearchKey(s)
                /\ CategoryKey(c) # SearchKey(s)
    /\ \A p \in Procs :
          lookups[p].cached # Nothing
             => (lookups[p].cached[1].json = "object" <=> lookups[p].op = "by_isbn")

\* an ISBN lookup read the list that a category lookup had cached
C30_IsbnReadsList ==
    \E p \in Procs :
        /\ lookups[p].op = "by_isbn"
        /\ lookups[p].res = "TypeError"
        /\ lookups[p].cached # Nothing
        /\ lookups[p].cached[1].json = "array"

\* the keys of an ISBN lookup and of a search never coincide
C30_IsbnSearchDisjoint ==
    \A isbn \in Isbns, s \in Searches :
        validate_isbn_10(isbn) => IsbnKey(isbn) # SearchKey(s)

====
